---- MODULE Spec2Model ----
(***************************************************************************)
(* A model of go-perfevent: the once-map used for the PMU descriptor       *)
(* cache (events/oncemap.go), the counter core (perf/counter.go), the PMU  *)
(* bit-field formats (events/pmu.go) and the event resolver                *)
(* (events/parse.go, events/pmu.go, events/builtin.go).                    *)
(*                                                                         *)
(* Each subsystem has its own variables, initial condition and next-state  *)
(* relation; a specification of one subsystem leaves the variables of the  *)
(* others at their initial values.                                         *)
(***************************************************************************)
EXTENDS Integers, Sequences, FiniteSets, TLC

VARIABLES
    \* ---- once-map (onceMap[K, V]) ----
    omMap,      \* m.m : key -> entry id, 0 when the key is absent
    omEnts,     \* the heap of onceMapEntry values: id -> [once, val, err]
    omPc,       \* per goroutine: position inside get
    omKey,      \* per goroutine: the key argument of the running get
    omEnt,      \* per goroutine: the local variable ent (an entry id)
    omRet,      \* per goroutine: what its last get returned
    omGets,     \* number of get calls started so far
    omNew,      \* key -> number of invocations of m.new(key)
    omBuilt,    \* key -> the outcomes m.new(key) returned, in order
    omWaited,   \* per goroutine: its Do found the Once busy and had to wait
    \* ---- counter core (perf.Counter) ----
    ctrs,       \* the Counter values OpenCounter returned, one per call
    ctrEvs,     \* per call: the event list it was given
    ctrErr,     \* per call: the error OpenCounter returned
    ctrPins,    \* per call: target.open() calls made for it
    ctrUnpins,  \* per call: target.close() calls made for it
    ctrOpens,   \* number of OpenCounter calls made
    kOpen,      \* the kernel's open perf-event descriptors
    ctrLast,    \* the last operation: what it was applied to and what it did
    ctrCrashed, \* a run-time panic has ended the program
    \* ---- PMU bit-field formats (pmuFormat) ----
    fmtFile,    \* the content of the sysfs format file, or the built-in name
    fmtF,       \* the pmuFormat in use
    fmtPre,     \* the rawEvent before set
    fmtEv,      \* the rawEvent after set
    fmtVal,     \* the value given to set
    fmtRes,     \* what set returned
    \* ---- event resolver (ParseEvent) ----
    perfTool,   \* what running "perf list -j" gives on this machine
    parseIn,    \* the event string given to ParseEvent
    parseOut,   \* what ParseEvent returned
    \* ---- built-in events (resolveBuiltinEvent) ----
    biPmu,      \* the PMU name given to resolveBuiltinEvent
    biName,     \* the event name given, as its pieces between dashes
    biOut,      \* what resolveBuiltinEvent returned
    \* ---- reading a counter (Counter.ReadGroup, Counter.ReadOne) ----
    rdC,        \* the Counter that OpenCounter returned
    kEv,        \* the kernel's side of the group: enabled, times and values
    rdBuf,      \* the caller's []Count given to ReadGroup
    rdLast,     \* the last read, or the panic that ended the program
    rdSeen,     \* per event of the group: the Count last read for it
    \* ---- scaled values (Count.Value) ----
    valIn,      \* the Count that Value is called on
    valOut,     \* what Value returned
    \* ---- benchmark adapter (perfbench.Counters) ----
    pbSeen,     \* openErrors: the open-error messages seen in this process
    pbMet,      \* every failed OpenCounter of an open, in order: who and what
    pbLog,      \* every b.Logf call, in order: who and what
    pbFds,      \* the kernel's open perf-event descriptors of the adapters
    pbCs,       \* the Counters of the benchmark that is running
    pbK,        \* per entry of cs.c: the kernel's side of its counter
    pbK0,       \* per entry of cs.c: what the kernel had at the last Reset
    pbMetrics,  \* the b.ReportMetric calls of the running benchmark, in order
    pbLast,     \* the last call, when it was Total or close, and its result
    pbPc        \* per goroutine inside open: its loop index and its cs.c

onceVars == <<omMap, omEnts, omPc, omKey, omEnt, omRet, omGets, omNew, omBuilt, omWaited>>

ctrVars == <<ctrs, ctrEvs, ctrErr, ctrPins, ctrUnpins, ctrOpens, kOpen, ctrLast, ctrCrashed>>

fmtVars == <<fmtFile, fmtF, fmtPre, fmtEv, fmtVal, fmtRes>>

parseVars == <<perfTool, parseIn, parseOut>>

builtinVars == <<biPmu, biName, biOut>>

readVars == <<rdC, kEv, rdBuf, rdLast, rdSeen>>

valueVars == <<valIn, valOut>>

benchVars == <<pbSeen, pbMet, pbLog, pbFds, pbCs, pbK, pbK0, pbMetrics, pbLast, pbPc>>

vars == <<onceVars, ctrVars, fmtVars, parseVars, builtinVars, readVars, valueVars, benchVars>>

notOnce == <<ctrVars, fmtVars, parseVars, builtinVars, readVars, valueVars, benchVars>>
notCtr == <<onceVars, fmtVars, parseVars, builtinVars, readVars, valueVars, benchVars>>
notFmt == <<onceVars, ctrVars, parseVars, builtinVars, readVars, valueVars, benchVars>>
notParse == <<onceVars, ctrVars, fmtVars, builtinVars, readVars, valueVars, benchVars>>
notBuiltin == <<onceVars, ctrVars, fmtVars, parseVars, readVars, valueVars, benchVars>>
notRead == <<onceVars, ctrVars, fmtVars, parseVars, builtinVars, valueVars, benchVars>>
notValue == <<onceVars, ctrVars, fmtVars, parseVars, builtinVars, readVars, benchVars>>
notBench == <<onceVars, ctrVars, fmtVars, parseVars, builtinVars, readVars, valueVars>>

(***************************************************************************)
(* Once-map                                                                *)
(***************************************************************************)
NProcs == 2
MaxGets == 3
NKeys == 2

Procs == 1..NProcs
Keys == 1..NKeys

\* The zero value of onceMapEntry[V]: once not yet run, val and err zero.
ZeroVal == "zero"
NilErr == "nil"
onceMapEntry == [once |-> "new", val |-> ZeroVal, err |-> NilErr]

\* What the constructor m.new may return: a value and a nil error, or the
\* zero value and an error.  Two calls need not return the same thing.
NewOutcomes ==
    { [val |-> "descA", err |-> NilErr],
      [val |-> "descB", err |-> NilErr],
      [val |-> ZeroVal, err |-> "errA"] }

NoRet == [key |-> 0, val |-> ZeroVal, err |-> NilErr]

OnceInit ==
    /\ omMap = [k \in Keys |-> 0]
    /\ omEnts = <<>>
    /\ omPc = [p \in Procs |-> "idle"]
    /\ omKey = [p \in Procs |-> 0]
    /\ omEnt = [p \in Procs |-> 0]
    /\ omRet = [p \in Procs |-> NoRet]
    /\ omGets = 0
    /\ omNew = [k \in Keys |-> 0]
    /\ omBuilt = [k \in Keys |-> <<>>]
    /\ omWaited = [p \in Procs |-> FALSE]

\* sync.Map.Load: (value, ok)
MapLoad(m, key) == [ent |-> m[key], ok |-> m[key] # 0]

\* A plausible slip: Store in place of LoadOrStore, so that a goroutine that
\* lost the race replaces the winner's entry with its own.
StoreAlways(m, key, new) ==
    [m |-> [m EXCEPT ![key] = new], ent |-> new, loaded |-> FALSE]

\* A plausible slip: the map is read without regard to the key, so that an
\* entry stored for any key is found for every key.
LoadOrStoreAnyKey(m, key, new) ==
    IF \E k \in DOMAIN m : m[k] # 0
    THEN [m |-> m, ent |-> m[CHOOSE k \in DOMAIN m : m[k] # 0], loaded |-> TRUE]
    ELSE [m |-> [m EXCEPT ![key] = new], ent |-> new, loaded |-> FALSE]

\* sync.Map.LoadOrStore: the existing value if present (loaded), otherwise
\* stores and returns the given one.
MapLoadOrStore(m, key, new) ==
    IF m[key] # 0
    THEN [m |-> m, ent |-> m[key], loaded |-> TRUE]
    ELSE [m |-> [m EXCEPT ![key] = new], ent |-> new, loaded |-> FALSE]

\* get is entered with a key.
GetCall(p, key) ==
    /\ omPc[p] = "idle"
    /\ omGets < MaxGets
    /\ omGets' = omGets + 1
    /\ omKey' = [omKey EXCEPT ![p] = key]
    /\ omEnt' = [omEnt EXCEPT ![p] = 0]
    /\ omPc' = [omPc EXCEPT ![p] = "load"]
    /\ omWaited' = [omWaited EXCEPT ![p] = FALSE]
    /\ UNCHANGED <<omMap, omEnts, omRet, omNew, omBuilt>>
    /\ UNCHANGED notOnce

\* entX, ok := m.m.Load(key)
GetLoad(p) ==
    /\ omPc[p] = "load"
    /\ LET r == MapLoad(omMap, omKey[p]) IN
        IF r.ok
        THEN /\ omEnt' = [omEnt EXCEPT ![p] = r.ent]
             /\ omPc' = [omPc EXCEPT ![p] = "do"]
        ELSE /\ omPc' = [omPc EXCEPT ![p] = "store"]
             /\ UNCHANGED omEnt
    /\ UNCHANGED <<omMap, omEnts, omKey, omRet, omGets, omNew, omBuilt, omWaited>>
    /\ UNCHANGED notOnce

\* ent = new(onceMapEntry[V]); entX, ok = m.m.LoadOrStore(key, ent)
GetLoadOrStore(p) ==
    /\ omPc[p] = "store"
    /\ LET id == Len(omEnts) + 1
           r == MapLoadOrStore(omMap, omKey[p], id)
       IN /\ omEnts' = Append(omEnts, onceMapEntry)
          /\ omMap' = r.m
          /\ omEnt' = [omEnt EXCEPT ![p] = r.ent]
    /\ omPc' = [omPc EXCEPT ![p] = "do"]
    /\ UNCHANGED <<omKey, omRet, omGets, omNew, omBuilt, omWaited>>
    /\ UNCHANGED notOnce

\* A plausible slip: a caller that finds the Once busy goes on without
\* waiting for it.
OnceCanPassNoWait(state) == TRUE

\* sync.Once.Do lets a caller past only when the function has not been
\* started (the caller then runs it) or has completed; while another
\* caller is running it, Do blocks.
OnceCanPass(state) == state # "running"

\* ent.once.Do(...): entering.
GetOnceDo(p) ==
    /\ omPc[p] = "do"
    /\ LET e == omEnts[omEnt[p]] IN
        /\ OnceCanPass(e.once)
        /\ IF e.once = "new"
           THEN /\ omEnts' = [omEnts EXCEPT ![omEnt[p]].once = "running"]
                /\ omNew' = [omNew EXCEPT ![omKey[p]] = @ + 1]
                /\ omPc' = [omPc EXCEPT ![p] = "new"]
           ELSE /\ omPc' = [omPc EXCEPT ![p] = "ret"]
                /\ UNCHANGED <<omEnts, omNew>>
    /\ UNCHANGED <<omMap, omKey, omEnt, omRet, omGets, omBuilt, omWaited>>
    /\ UNCHANGED notOnce

\* ent.val, ent.err = m.new(key)
GetNew(p, out) ==
    /\ omPc[p] = "new"
    /\ omEnts' = [omEnts EXCEPT ![omEnt[p]].val = out.val,
                                ![omEnt[p]].err = out.err]
    /\ omBuilt' = [omBuilt EXCEPT ![omKey[p]] = Append(@, out)]
    /\ omPc' = [omPc EXCEPT ![p] = "fin"]
    /\ UNCHANGED <<omMap, omKey, omEnt, omRet, omGets, omNew, omWaited>>
    /\ UNCHANGED notOnce

\* A plausible slip: a construction that failed is left to be tried again.
OnceRetryAfterError(e) == IF e.err # NilErr THEN "new" ELSE "done"

\* The state of the Once when the function passed to Do has returned,
\* whatever it stored in the entry.
OnceAfterDo(e) == "done"

\* The function passed to Do has returned: the Once is marked done and its
\* waiters are released.
GetOnceDone(p) ==
    /\ omPc[p] = "fin"
    /\ omEnts' = [omEnts EXCEPT ![omEnt[p]].once = OnceAfterDo(omEnts[omEnt[p]])]
    /\ omPc' = [omPc EXCEPT ![p] = "ret"]
    /\ omWaited' = [q \in Procs |->
                        omWaited[q] \/ (q # p /\ omPc[q] = "do" /\ omEnt[q] = omEnt[p])]
    /\ UNCHANGED <<omMap, omKey, omEnt, omRet, omGets, omNew, omBuilt>>
    /\ UNCHANGED notOnce

\* return ent.val, ent.err
GetReturn(p) ==
    /\ omPc[p] = "ret"
    /\ LET e == omEnts[omEnt[p]] IN
        omRet' = [omRet EXCEPT ![p] = [key |-> omKey[p], val |-> e.val, err |-> e.err]]
    /\ omPc' = [omPc EXCEPT ![p] = "idle"]
    /\ UNCHANGED <<omMap, omEnts, omKey, omEnt, omGets, omNew, omBuilt, omWaited>>
    /\ UNCHANGED notOnce

NextOnce ==
    \/ \E p \in Procs, k \in Keys : GetCall(p, k)
    \/ \E p \in Procs : GetLoad(p)
    \/ \E p \in Procs : GetLoadOrStore(p)
    \/ \E p \in Procs : GetOnceDo(p)
    \/ \E p \in Procs, out \in NewOutcomes : GetNew(p, out)
    \/ \E p \in Procs : GetOnceDone(p)
    \/ \E p \in Procs : GetReturn(p)


(***************************************************************************)
(* Counter core                                                            *)
(***************************************************************************)
MaxOpens == 2
MaxEvents == 2

Slots == 1..MaxOpens

\* An event as OpenCounter sees it: whether its SetAttrs returns an error and
\* whether the kernel refuses to open it.
Events ==
    { [name |-> "cpu-cycles", attrErr |-> FALSE, openErr |-> FALSE],
      [name |-> "badattrs", attrErr |-> TRUE, openErr |-> FALSE],
      [name |-> "refused", attrErr |-> FALSE, openErr |-> TRUE] }

RECURSIVE SeqsUpTo(_, _)
SeqsUpTo(S, n) ==
    IF n = 0 THEN { <<>> }
    ELSE LET shorter == SeqsUpTo(S, n - 1) IN
         shorter \cup { Append(q, x) : q \in shorter, x \in S }

EventLists == SeqsUpTo(Events, MaxEvents)

\* scale{scale, unit}: the float64 scale as the fraction n/d.
Scale(n, d, unit) == [n |-> n, d |-> d, unit |-> unit]

\* sc, unit := 1.0, "", replaced by es.ScaleUnit() for an events.EventScale.
\* Of the events here only "energy" has a scale (0.5 Joules).
EventScaleUnit(ev) == IF ev.name = "energy" THEN Scale(1, 2, "Joules") ELSE Scale(1, 1, "")

\* A *Counter.  isNil is the nil pointer; f = <<>> is the nil descriptor list.
NilCounter ==
    [isNil |-> TRUE, f |-> <<>>, running |-> FALSE, nEvents |-> 0, target |-> "nil",
     eventScales |-> <<>>]

Syscall(call, fd, group) == [call |-> call, fd |-> fd, group |-> group]
LockThread == Syscall("LockOSThread", 0, 0)
UnlockThread == Syscall("UnlockOSThread", 0, 0)

CountCalls(calls, name) == Cardinality({ i \in 1..Len(calls) : calls[i].call = name })

\* The descriptor the kernel hands out: the lowest one not in use (0, 1 and
\* 2 are the standard streams).
NewFd(kopen) == CHOOSE fd \in 3..(3 + Cardinality(kopen)) :
                    /\ fd \notin kopen
                    /\ \A g \in 3..(fd - 1) : g \in kopen

RECURSIVE CloseFiles(_, _)
\* for _, f := range c.f { f.Close() }
CloseFiles(fds, i) ==
    IF i > Len(fds) THEN <<>>
    ELSE <<Syscall("close", fds[i], 0)>> \o CloseFiles(fds, i + 1)

\* A plausible slip: the failure path releases the thread but leaves the
\* descriptors it has opened.
CleanupUnlockOnly(fds) == <<UnlockThread>>

\* The two deferred functions of OpenCounter on a failed open, last
\* registered first: close every file in c.f, then target.close().
DeferredCleanup(fds) == CloseFiles(fds, 1) \o <<UnlockThread>>

RECURSIVE OpenMembers(_, _, _, _, _)
\* The kernel opens of OpenCounter, leader first, each member with the
\* leader's descriptor as its group; stops at the first SetAttrs error or
\* kernel error.
OpenMembers(evs, i, fds, kopen, calls) ==
    IF i > Len(evs)
    THEN [err |-> "nil", fds |-> fds, kopen |-> kopen, calls |-> calls]
    ELSE IF evs[i].attrErr
    THEN [err |-> "SetAttrs", fds |-> fds, kopen |-> kopen, calls |-> calls]
    ELSE LET group == IF i = 1 THEN -1 ELSE fds[1] IN
         IF evs[i].openErr
         THEN [err |-> "PerfEventOpen", fds |-> fds, kopen |-> kopen,
               calls |-> Append(calls, Syscall("perf_event_open", -1, group))]
         ELSE LET fd == NewFd(kopen) IN
              OpenMembers(evs, i + 1, Append(fds, fd), kopen \cup {fd},
                          Append(calls, Syscall("perf_event_open", fd, group)))

ClosedFds(calls) == { calls[i].fd : i \in { j \in 1..Len(calls) : calls[j].call = "close" } }
OpenedFds(calls) ==
    { calls[i].fd : i \in { j \in 1..Len(calls) :
                              calls[j].call = "perf_event_open" /\ calls[j].fd # -1 } }

\* OpenCounter(target, evs...): the Counter and error it returns, the calls it
\* makes and the kernel's descriptors afterwards.
OpenCounter(evs, kopen) ==
    IF Len(evs) = 0
    THEN [c |-> NilCounter, err |-> "nil", calls |-> <<>>, kopen |-> kopen]
    ELSE IF evs[1].attrErr
    THEN [c |-> NilCounter, err |-> "SetAttrs", calls |-> <<>>, kopen |-> kopen]
    ELSE LET r == OpenMembers(evs, 1, <<>>, kopen, <<LockThread>>) IN
         IF r.err = "nil"
         THEN [c |-> [isNil |-> FALSE, f |-> r.fds, running |-> FALSE,
                      nEvents |-> Len(evs), target |-> "thisGoroutine",
                      eventScales |-> [i \in 1..Len(evs) |-> EventScaleUnit(evs[i])]],
               err |-> "nil", calls |-> r.calls, kopen |-> r.kopen]
         ELSE LET cleanup == DeferredCleanup(r.fds) IN
              [c |-> NilCounter, err |-> r.err, calls |-> r.calls \o cleanup,
               kopen |-> r.kopen \ ClosedFds(cleanup)]

\* A plausible slip: Close forgets to clear the descriptor list, so that a
\* second Close runs again.
CloseKeepsFiles(c) ==
    IF c.isNil
    THEN [c |-> c, calls |-> <<>>, res |-> "ok"]
    ELSE [c |-> [c EXCEPT !.target = "nil"],
          calls |-> CloseFiles(c.f, 1) \o <<UnlockThread>>, res |-> "ok"]

\* A plausible slip: Close also marks the counter as stopped.
CloseClearsRunning(c) ==
    IF c.isNil \/ c.f = <<>>
    THEN [c |-> c, calls |-> <<>>, res |-> "ok"]
    ELSE [c |-> [c EXCEPT !.f = <<>>, !.target = "nil", !.running = FALSE],
          calls |-> CloseFiles(c.f, 1) \o <<UnlockThread>>, res |-> "ok"]

\* Counter.Close
CounterClose(c) ==
    IF c.isNil \/ c.f = <<>>
    THEN [c |-> c, calls |-> <<>>, res |-> "ok"]
    ELSE [c |-> [c EXCEPT !.f = <<>>, !.target = "nil"],
          calls |-> CloseFiles(c.f, 1) \o <<UnlockThread>>, res |-> "ok"]

\* A plausible slip: Start without the check of c.running.
StartUnguarded(c) ==
    IF c.isNil
    THEN [c |-> c, calls |-> <<>>, res |-> "ok"]
    ELSE IF c.f = <<>>
    THEN [c |-> [c EXCEPT !.running = TRUE], calls |-> <<>>, res |-> "panic"]
    ELSE [c |-> [c EXCEPT !.running = TRUE],
          calls |-> <<Syscall("ioctl_enable", c.f[1], 0)>>, res |-> "ok"]

\* Counter.Start.  c.f[0] on the nil list is an index out of range.
CounterStart(c) ==
    IF c.isNil \/ c.running
    THEN [c |-> c, calls |-> <<>>, res |-> "ok"]
    ELSE IF c.f = <<>>
    THEN [c |-> [c EXCEPT !.running = TRUE], calls |-> <<>>, res |-> "panic"]
    ELSE [c |-> [c EXCEPT !.running = TRUE],
          calls |-> <<Syscall("ioctl_enable", c.f[1], 0)>>, res |-> "ok"]

\* A plausible slip: Stop clears c.running and leaves out the DISABLE call.
StopFlagOnly(c) ==
    IF c.isNil \/ ~c.running
    THEN [c |-> c, calls |-> <<>>, res |-> "ok"]
    ELSE IF c.f = <<>>
    THEN [c |-> c, calls |-> <<>>, res |-> "panic"]
    ELSE [c |-> [c EXCEPT !.running = FALSE], calls |-> <<>>, res |-> "ok"]

\* Counter.Stop.  A panic at c.f[0] leaves c.running as it was.
CounterStop(c) ==
    IF c.isNil \/ ~c.running
    THEN [c |-> c, calls |-> <<>>, res |-> "ok"]
    ELSE IF c.f = <<>>
    THEN [c |-> c, calls |-> <<>>, res |-> "panic"]
    ELSE [c |-> [c EXCEPT !.running = FALSE],
          calls |-> <<Syscall("ioctl_disable", c.f[1], 0)>>, res |-> "ok"]

NoOp == [op |-> "none", slot |-> 0, pre |-> NilCounter, calls |-> <<>>,
         res |-> "ok", kopenPre |-> {}]

CtrInit ==
    /\ ctrs = [i \in Slots |-> NilCounter]
    /\ ctrEvs = [i \in Slots |-> <<>>]
    /\ ctrErr = [i \in Slots |-> "nil"]
    /\ ctrPins = [i \in Slots |-> 0]
    /\ ctrUnpins = [i \in Slots |-> 0]
    /\ ctrOpens = 0
    /\ kOpen = {}
    /\ ctrLast = NoOp
    /\ ctrCrashed = FALSE

\* c, err := OpenCounter(TargetThisGoroutine, evs...)
DoOpen(evs) ==
    /\ ~ctrCrashed
    /\ ctrOpens < MaxOpens
    /\ LET i == ctrOpens + 1
           r == OpenCounter(evs, kOpen)
       IN /\ ctrOpens' = i
          /\ ctrs' = [ctrs EXCEPT ![i] = r.c]
          /\ ctrEvs' = [ctrEvs EXCEPT ![i] = evs]
          /\ ctrErr' = [ctrErr EXCEPT ![i] = r.err]
          /\ ctrPins' = [ctrPins EXCEPT ![i] = CountCalls(r.calls, "LockOSThread")]
          /\ ctrUnpins' = [ctrUnpins EXCEPT ![i] = CountCalls(r.calls, "UnlockOSThread")]
          /\ kOpen' = r.kopen
          /\ ctrLast' = [op |-> "Open", slot |-> i, pre |-> NilCounter,
                         calls |-> r.calls, res |-> r.err, kopenPre |-> kOpen]
    /\ UNCHANGED ctrCrashed
    /\ UNCHANGED notCtr

\* A method call on the Counter of slot i, with its effect r.
Method(i, name, r) ==
    /\ ctrs' = [ctrs EXCEPT ![i] = r.c]
    /\ ctrPins' = [ctrPins EXCEPT ![i] = @ + CountCalls(r.calls, "LockOSThread")]
    /\ ctrUnpins' = [ctrUnpins EXCEPT ![i] = @ + CountCalls(r.calls, "UnlockOSThread")]
    /\ kOpen' = kOpen \ ClosedFds(r.calls)
    /\ ctrLast' = [op |-> name, slot |-> i, pre |-> ctrs[i],
                   calls |-> r.calls, res |-> r.res, kopenPre |-> kOpen]
    /\ ctrCrashed' = (r.res = "panic")
    /\ UNCHANGED <<ctrEvs, ctrErr, ctrOpens>>
    /\ UNCHANGED notCtr

\* c.Close()
DoClose(i) ==
    /\ ~ctrCrashed /\ i <= ctrOpens
    /\ Method(i, "Close", CounterClose(ctrs[i]))

\* c.Start()
DoStart(i) ==
    /\ ~ctrCrashed /\ i <= ctrOpens
    /\ Method(i, "Start", CounterStart(ctrs[i]))

\* c.Stop()
DoStop(i) ==
    /\ ~ctrCrashed /\ i <= ctrOpens
    /\ Method(i, "Stop", CounterStop(ctrs[i]))

NextCtr ==
    \/ \E evs \in EventLists : DoOpen(evs)
    \/ \E i \in Slots : DoClose(i)
    \/ \E i \in Slots : DoStart(i)
    \/ \E i \in Slots : DoStop(i)

(***************************************************************************)
(* Reading a counter                                                       *)
(***************************************************************************)
MaxTicks == 2

\* Count{RawValue, TimeEnabled, TimeRunning, scale}
Count(raw, te, tr, sc) ==
    [RawValue |-> raw, TimeEnabled |-> te, TimeRunning |-> tr, scale |-> sc]

\* Count{}: every field is zero, the scale is 0.0 and the unit is empty.
ZeroCount == Count(0, 0, 0, Scale(0, 1, ""))

\* A list of n events that SetAttrs accepts and the kernel opens: cpu-cycles
\* and energy in turn.
ReadList(n) ==
    [i \in 1..n |-> [name |-> IF i % 2 = 1 THEN "cpu-cycles" ELSE "energy",
                     attrErr |-> FALSE, openErr |-> FALSE]]

\* attr.Bits of the i-th perf_event_open of OpenCounter, leader and members
\* alike.
AttrBits(i) == "PerfBitDisabled"

\* The kernel's side of a group of n events just opened with
\* attr.Bits = PerfBitDisabled: not counting, times and values zero.
\* started says that it has served a PERF_EVENT_IOC_ENABLE.
KernelOpened(n) ==
    [enabled |-> n > 0 /\ AttrBits(1) # "PerfBitDisabled", started |-> FALSE,
     te |-> 0, tr |-> 0, vals |-> [i \in 1..n |-> 0],
     disabled |-> [i \in 1..n |-> AttrBits(i) = "PerfBitDisabled"]]

\* What the calls of Start, Stop and Close do to the group: ENABLE and
\* DISABLE on the leader, and the closing of its descriptors.
KernelCalls(k, calls) ==
    IF CountCalls(calls, "ioctl_enable") > 0
    THEN [k EXCEPT !.enabled = TRUE, !.started = TRUE]
    ELSE IF CountCalls(calls, "ioctl_disable") > 0 \/ CountCalls(calls, "close") > 0
    THEN [k EXCEPT !.enabled = FALSE]
    ELSE k

\* The record read(2) gives for Read_format = TOTAL_TIME_ENABLED |
\* TOTAL_TIME_RUNNING | GROUP: [nr][time_enabled][time_running]{[value]}.
KernelRecord(k) ==
    [err |-> FALSE, nr |-> Len(k.vals), te |-> k.te, tr |-> k.tr, vals |-> k.vals]

\* What c.f[0].Read(buf) can leave in buf: the kernel's record, an error, or
\* a record whose nr is not the size of the group.
ReadRecords(k) ==
    { KernelRecord(k), [KernelRecord(k) EXCEPT !.err = TRUE],
      [KernelRecord(k) EXCEPT !.nr = @ + 1] }
        \cup (IF Len(k.vals) > 0 THEN { [KernelRecord(k) EXCEPT !.nr = @ - 1] } ELSE {})

\* A plausible slip: the Counts are decoded before nr is compared with
\* c.nEvents.
ReadGroupDecodeFirst(c, cs, rec) ==
    IF c.isNil
    THEN [cs |-> cs, err |-> "nil"]
    ELSE IF c.f = <<>>
    THEN [cs |-> cs, err |-> "Counter is closed"]
    ELSE IF rec.err
    THEN [cs |-> cs, err |-> "read"]
    ELSE [cs |-> [i \in 1..Len(cs) |->
                    IF i <= c.nEvents
                    THEN Count(rec.vals[i], rec.te, rec.tr, c.eventScales[i])
                    ELSE cs[i]],
          err |-> IF rec.nr # c.nEvents THEN "ReadMismatch" ELSE "nil"]

\* A plausible slip: every Count is decoded from the first value of the
\* record, buf[24:], the offset i*8 left out.
ReadGroupFirstValue(c, cs, rec) ==
    IF c.isNil
    THEN [cs |-> cs, err |-> "nil"]
    ELSE IF c.f = <<>>
    THEN [cs |-> cs, err |-> "Counter is closed"]
    ELSE IF rec.err
    THEN [cs |-> cs, err |-> "read"]
    ELSE IF rec.nr # c.nEvents
    THEN [cs |-> cs, err |-> "ReadMismatch"]
    ELSE [cs |-> [i \in 1..Len(cs) |->
                    IF i <= c.nEvents
                    THEN Count(rec.vals[1], rec.te, rec.tr, c.eventScales[i])
                    ELSE cs[i]],
          err |-> "nil"]

\* Counter.ReadGroup(cs): the buffer afterwards and the error returned.
\* "ReadMismatch" is the error "read returned %d events, expected %d".
CounterReadGroup(c, cs, rec) ==
    IF c.isNil
    THEN [cs |-> cs, err |-> "nil"]
    ELSE IF c.f = <<>>
    THEN [cs |-> cs, err |-> "Counter is closed"]
    ELSE IF rec.err
    THEN [cs |-> cs, err |-> "read"]
    ELSE IF rec.nr # c.nEvents
    THEN [cs |-> cs, err |-> "ReadMismatch"]
    ELSE [cs |-> [i \in 1..Len(cs) |->
                    IF i <= c.nEvents
                    THEN Count(rec.vals[i], rec.te, rec.tr, c.eventScales[i])
                    ELSE cs[i]],
          err |-> "nil"]

\* Counter.ReadOne(): ReadGroup on a fresh array of one Count.
CounterReadOne(c, rec) ==
    IF c.isNil
    THEN [count |-> ZeroCount, err |-> "nil"]
    ELSE LET r == CounterReadGroup(c, <<ZeroCount>>, rec) IN
         IF r.err # "nil"
         THEN [count |-> ZeroCount, err |-> r.err]
         ELSE [count |-> r.cs[1], err |-> "nil"]

NoCall == [op |-> "none", err |-> "ok"]

\* The Counts a read returned, put over what earlier reads returned.  With
\* each Count: frozen, that it was read from a counter that was not running
\* and has not been started since, and again, that the read before it found
\* the counter so as well.
Seen(old, cs) ==
    [i \in 1..(IF Len(old) < Len(cs) THEN Len(cs) ELSE Len(old)) |->
        IF i <= Len(cs)
        THEN [c |-> cs[i], frozen |-> ~rdC.running,
              again |-> i <= Len(old) /\ old[i].frozen /\ ~rdC.running]
        ELSE old[i]]

\* The Counts seen, after the calls of a Start, Stop or Close.
SeenAfter(old, calls) ==
    IF CountCalls(calls, "ioctl_enable") > 0
    THEN [i \in 1..Len(old) |-> [old[i] EXCEPT !.frozen = FALSE]]
    ELSE old

ReadIdle ==
    /\ rdC = NilCounter
    /\ kEv = KernelOpened(0)
    /\ rdBuf = <<>>
    /\ rdLast = NoCall
    /\ rdSeen = <<>>

\* c, _ := OpenCounter(TargetThisGoroutine, evs...) has succeeded, and the
\* caller holds a buffer of n Counts.
ReadInit ==
    \E m \in 0..MaxEvents, n \in 0..MaxEvents :
        /\ rdC = OpenCounter(ReadList(m), {}).c
        /\ kEv = KernelOpened(m)
        /\ rdBuf = [i \in 1..n |-> ZeroCount]
        /\ rdLast = NoCall
        /\ rdSeen = <<>>

\* Start, Stop or Close on the Counter, with its effect r.
RdMethod(name, r) ==
    /\ rdC' = r.c
    /\ kEv' = KernelCalls(kEv, r.calls)
    /\ rdLast' = IF r.res = "panic" THEN [op |-> name, err |-> "panic"] ELSE rdLast
    /\ rdSeen' = SeenAfter(rdSeen, r.calls)
    /\ UNCHANGED rdBuf
    /\ UNCHANGED notRead

\* c.Start()
RdStart ==
    /\ rdLast.err # "panic"
    /\ RdMethod("Start", CounterStart(rdC))

\* c.Stop()
RdStop ==
    /\ rdLast.err # "panic"
    /\ RdMethod("Stop", CounterStop(rdC))

\* c.Close()
RdClose ==
    /\ rdLast.err # "panic"
    /\ RdMethod("Close", CounterClose(rdC))

\* err := c.ReadGroup(rdBuf), the read giving rec.
RdReadGroup(rec) ==
    /\ rdLast.err # "panic"
    /\ LET r == CounterReadGroup(rdC, rdBuf, rec)
           n == IF Len(rdBuf) < rdC.nEvents THEN Len(rdBuf) ELSE rdC.nEvents
       IN /\ rdBuf' = r.cs
          /\ rdLast' = [op |-> "ReadGroup", err |-> r.err]
          /\ rdSeen' = IF r.err = "nil" THEN Seen(rdSeen, SubSeq(r.cs, 1, n)) ELSE rdSeen
    /\ UNCHANGED <<rdC, kEv>>
    /\ UNCHANGED notRead

\* count, err := c.ReadOne(), the read giving rec.
RdReadOne(rec) ==
    /\ rdLast.err # "panic"
    /\ LET r == CounterReadOne(rdC, rec)
       IN /\ rdLast' = [op |-> "ReadOne", err |-> r.err]
          /\ rdSeen' = IF r.err = "nil" THEN Seen(rdSeen, <<r.count>>) ELSE rdSeen
    /\ UNCHANGED <<rdC, kEv, rdBuf>>
    /\ UNCHANGED notRead

\* Time passes while the group is enabled: time_enabled advances; when the
\* group is on the hardware (sched) time_running advances too and event i
\* counts i more.
KernelRun(sched) ==
    /\ rdLast.err # "panic"
    /\ kEv.enabled
    /\ kEv.te < MaxTicks
    /\ kEv' = [kEv EXCEPT !.te = @ + 1,
                          !.tr = IF sched THEN @ + 1 ELSE @,
                          !.vals = [i \in 1..Len(@) |-> IF sched THEN @[i] + i ELSE @[i]]]
    /\ UNCHANGED <<rdC, rdBuf, rdLast, rdSeen>>
    /\ UNCHANGED notRead

NextRead ==
    \/ RdStart
    \/ RdStop
    \/ RdClose
    \/ \E rec \in ReadRecords(kEv) : RdReadGroup(rec)
    \/ \E rec \in ReadRecords(kEv) : RdReadOne(rec)
    \/ \E sched \in BOOLEAN : KernelRun(sched)


(***************************************************************************)
(* Scaled values                                                           *)
(***************************************************************************)
MaxRaw == 2
MaxTime == 2

\* The scales a Count can carry: 0.0 (Count{}), 0.5, 1.0 and 2.0.
Scales == { Scale(0, 1, ""), Scale(1, 2, "Joules"), Scale(1, 1, ""), Scale(2, 1, "MiB") }

Counts ==
    { Count(raw, te, tr, sc) : raw \in 0..MaxRaw, te \in 0..MaxTime,
                               tr \in 0..MaxTime, sc \in Scales }

\* A float64 result as the fraction num/den, with its unit.
Val(num, den, unit) == [num |-> num, den |-> den, unit |-> unit]

\* Count.Value().  The products are exact here; float64 rounds them.
CountValue(c) ==
    IF c.TimeEnabled = c.TimeRunning /\ c.scale.n = c.scale.d
    THEN Val(c.RawValue, 1, c.scale.unit)
    ELSE IF c.TimeRunning = 0
    THEN Val(0, 1, c.scale.unit)
    ELSE Val(c.RawValue * c.TimeEnabled * c.scale.n, c.TimeRunning * c.scale.d,
             c.scale.unit)

NoValue == [done |-> FALSE, v |-> Val(0, 1, "")]

ValueIdle ==
    /\ valIn = ZeroCount
    /\ valOut = NoValue

ValueInit ==
    /\ valIn \in Counts
    /\ valOut = NoValue

\* v, unit := valIn.Value()
DoValue ==
    /\ ~valOut.done
    /\ valOut' = [done |-> TRUE, v |-> CountValue(valIn)]
    /\ UNCHANGED valIn
    /\ UNCHANGED notValue

NextValue ==
    \/ DoValue




(***************************************************************************)
(* PMU bit-field formats                                                   *)
(***************************************************************************)
\* The width of the registers config, config1, config2 and period, and of
\* every value (uint64 in the program).
RegBits == 20
MaxRanges == 2

Pow2(n) == 2 ^ n

\* F applied to v: a value that is computed once and then used.
With(v, F(_)) == F(v)
AllOnes == Pow2(RegBits) - 1
Words == 0..AllOnes

Bit(x, b) == (x \div Pow2(b)) % 2

RECURSIVE BitAnd(_, _)
BitAnd(x, y) ==
    IF x = 0 \/ y = 0 THEN 0
    ELSE (x % 2) * (y % 2) + 2 * BitAnd(x \div 2, y \div 2)

\* x &^ y, x | y
BitAndNot(x, y) == x - BitAnd(x, y)
BitOr(x, y) == x + y - BitAnd(x, y)

\* x << n and x >> n on a register: bits shifted out are lost, and a count of
\* the register's width or more gives 0.  n >= 0.
Shl(x, n) == IF n >= RegBits THEN 0 ELSE (x % Pow2(RegBits - n)) * Pow2(n)
Shr(x, n) == IF n >= RegBits THEN 0 ELSE x \div Pow2(n)

\* uint64 subtraction wraps.
WrapSub(x, y) == (x - y + Pow2(RegBits)) % Pow2(RegBits)

\* rawEvent
rawEvent(name) ==
    [name |-> name, pmu |-> 0, config |-> 0, config1 |-> 0, config2 |-> 0,
     period |-> 0, scale |-> [m |-> 0, e |-> 0], unit |-> <<>>]

Fields == {"config", "config1", "config2", "period"}

\* fieldConfig, fieldConfig1, fieldConfig2, fieldPeriod: read and write through
\* the pointer they return.
FieldGet(e, field) ==
    CASE field = "config" -> e.config
      [] field = "config1" -> e.config1
      [] field = "config2" -> e.config2
      [] field = "period" -> e.period

FieldPut(e, field, x) ==
    CASE field = "config" -> [e EXCEPT !.config = x]
      [] field = "config1" -> [e EXCEPT !.config1 = x]
      [] field = "config2" -> [e EXCEPT !.config2 = x]
      [] field = "period" -> [e EXCEPT !.period = x]

formatBitRange(shift, nBits) == [shift |-> shift, nBits |-> nBits]
formatAllBits == << formatBitRange(0, RegBits) >>
pmuFormat(name, field, bits) == [name |-> name, field |-> field, bits |-> bits]

\* pmuDesc.getFormat for the names every PMU has.
BuiltinFormatNames == {"config", "config1", "config2", "period"}
BuiltinFormat(param) == pmuFormat(param, param, formatAllBits)

\* A format file "<field>:<range>,<range>..." as its tokens: the field name and
\* the ranges, each "lo" or "lo-hi" with the numbers Atoi reads from them;
\* loErr and hiErr say that Atoi rejects the text.
RangeEntry(lo, hasHi, hi) ==
    [lo |-> lo, hasHi |-> hasHi, hi |-> hi, loErr |-> FALSE, hiErr |-> FALSE]
FormatFile(field, ranges) ==
    [builtin |-> FALSE, colon |-> TRUE, field |-> field, ranges |-> ranges]
\* Not a file: one of the formats every PMU has.
BuiltinFile(name) ==
    [builtin |-> TRUE, colon |-> FALSE, field |-> name, ranges |-> <<>>]

RECURSIVE ParseRanges(_, _)
\* The loop of pmuParseFormat over the ranges: nBits is 1 for "lo" and
\* hi - lo + 1 for "lo-hi"; fails on the first number that does not parse.
ParseRanges(ranges, i) ==
    IF i > Len(ranges) THEN [ok |-> TRUE, bits |-> <<>>]
    ELSE LET r == ranges[i]
             bad == r.loErr \/ (r.hasHi /\ r.hiErr)
             nBits == IF r.hasHi THEN r.hi - r.lo + 1 ELSE 1
             rest == ParseRanges(ranges, i + 1)
         IN IF bad \/ ~rest.ok THEN [ok |-> FALSE, bits |-> <<>>]
            ELSE [ok |-> TRUE, bits |-> <<formatBitRange(r.lo, nBits)>> \o rest.bits]

\* pmuParseFormat, and the name the PMU descriptor's constructor gives the
\* result.
pmuParseFormat(name, file) ==
    IF ~file.colon \/ file.field \notin {"config", "config1", "config2"}
    THEN [ok |-> FALSE, format |-> pmuFormat(name, "config", <<>>)]
    ELSE LET r == ParseRanges(file.ranges, 1) IN
         [ok |-> r.ok, format |-> pmuFormat(name, file.field, r.bits)]

\* A plausible slip: the range is written without being cleared first.
SetRangeNoClear(field, x, bits) ==
    LET max == WrapSub(Shl(1, bits.nBits), 1) IN
    BitOr(field, Shl(BitAnd(x, max), bits.shift))

\* One turn of the loop of pmuFormat.set on the register: clear the range,
\* then write the low nBits bits of x into it.  bits.nBits >= 0.
SetRange(field, x, bits) ==
    LET max == WrapSub(Shl(1, bits.nBits), 1) IN
    BitOr(BitAndNot(field, Shl(max, bits.shift)), Shl(BitAnd(x, max), bits.shift))

RECURSIVE SetLoop(_, _, _, _, _)
\* The loop of pmuFormat.set.  uint64(1) << bits.nBits panics for a negative
\* count; what was written before stays written.
SetLoop(bits, i, field, x, totalBits) ==
    IF i > Len(bits)
    THEN [panic |-> FALSE, field |-> field, x |-> x, totalBits |-> totalBits]
    ELSE IF bits[i].nBits < 0
    THEN [panic |-> TRUE, field |-> field, x |-> x, totalBits |-> totalBits + bits[i].nBits]
    ELSE SetLoop(bits, i + 1, SetRange(field, x, bits[i]), Shr(x, bits[i].nBits),
                 totalBits + bits[i].nBits)

NoError == [kind |-> "nil", name |-> "", val |-> 0, max |-> 0]
Panicked == [kind |-> "panic", name |-> "", val |-> 0, max |-> 0]

\* pmuFormat.set: the event afterwards and the error.  The register keeps
\* what the loop wrote also when the value is out of range.
pmuFormatSet(f, e, val) ==
    With(SetLoop(f.bits, 1, FieldGet(e, f.field), val, 0), LAMBDA r :
        [ev |-> FieldPut(e, f.field, r.field),
         err |-> IF r.panic THEN Panicked
                 ELSE IF r.x = 0 THEN NoError
                 ELSE IF r.totalBits < 0 THEN Panicked
                 ELSE [kind |-> "ParamOutOfRange", name |-> f.name, val |-> val,
                       max |-> WrapSub(Shl(1, r.totalBits), 1)]])

\* The numbers that appear in the format files tried: low bits, and the top
\* of the register and one past it.
RangeLos == {0, 1, RegBits - 1}
RangeHis == {0, 1, 2, RegBits - 1, RegBits}
RangeEntries ==
    { RangeEntry(lo, FALSE, 0) : lo \in RangeLos }
        \cup { RangeEntry(lo, TRUE, hi) : lo \in RangeLos, hi \in RangeHis }

FormatFiles ==
    { FormatFile(field, ranges) :
        field \in {"config", "config1", "config2"},
        ranges \in SeqsUpTo(RangeEntries, MaxRanges) \ { <<>> } }

\* The events set is applied to: all registers clear, and all registers full.
BlankEvent == rawEvent("ev")
FullEvent == [BlankEvent EXCEPT !.config = AllOnes, !.config1 = AllOnes,
                                !.config2 = AllOnes, !.period = AllOnes]

\* The values given to set: the small ones, and the largest.
SetValues == 0..8 \cup {AllOnes - 1, AllOnes}

NotSet == [kind |-> "none", name |-> "", val |-> 0, max |-> 0]

FmtIdle ==
    /\ fmtFile = BuiltinFile("config")
    /\ fmtF = BuiltinFormat("config")
    /\ fmtPre = BlankEvent
    /\ fmtEv = BlankEvent
    /\ fmtVal = 0
    /\ fmtRes = NoError

\* A format the program can hold: one of the four built-in ones, or what
\* pmuParseFormat makes of a format file.
FmtInit ==
    /\ \/ \E n \in BuiltinFormatNames : fmtFile = BuiltinFile(n) /\ fmtF = BuiltinFormat(n)
       \/ \E file \in FormatFiles :
            /\ fmtFile = file
            /\ pmuParseFormat("fmt", file).ok
            /\ fmtF = pmuParseFormat("fmt", file).format
    /\ fmtPre \in {BlankEvent, FullEvent}
    /\ fmtEv = fmtPre
    /\ fmtVal = 0
    /\ fmtRes = NotSet

\* err := f.set(&event, val)
DoSet(val) ==
    /\ fmtRes = NotSet
    /\ LET r == pmuFormatSet(fmtF, fmtEv, val) IN
        /\ fmtEv' = r.ev
        /\ fmtRes' = r.err
    /\ fmtVal' = val
    /\ UNCHANGED <<fmtFile, fmtF, fmtPre>>
    /\ UNCHANGED notFmt

NextFmt ==
    \/ \E val \in SetValues : DoSet(val)

(***************************************************************************)
(* Event strings, parameter lists and numbers                              *)
(***************************************************************************)
MaxParams == 2

\* One comma-separated piece of a parameter list: "k", "k=<number>", or
\* "k=<text>" where the text is no number.
KeyOnly(k) == [k |-> k, eq |-> FALSE, num |-> FALSE, v |-> 0]
KeyVal(k, v) == [k |-> k, eq |-> TRUE, num |-> TRUE, v |-> v]
KeyText(k) == [k |-> k, eq |-> TRUE, num |-> FALSE, v |-> 0]

\* An event string: "pmu/list/" with the pieces of its list (none for
\* "pmu//"), or a name without slashes.
PMUName(pmu, list) == [slashes |-> TRUE, pmu |-> pmu, list |-> list]
BareName(k) == [slashes |-> FALSE, pmu |-> "", list |-> <<KeyOnly(k)>>]
EmptyString == [slashes |-> FALSE, pmu |-> "", list |-> <<>>]

eventParam(k, v, kOnly) == [k |-> k, v |-> v, kOnly |-> kOnly]

\* An error value: its kind and the names and numbers its message carries.
NewError(kind, name, other) ==
    [kind |-> kind, name |-> name, other |-> other, val |-> 0, max |-> 0]
nil == NewError("nil", "", "")
errNotPMUEvent == NewError("NotPMUEvent", "", "")
errUnknownEvent == NewError("errUnknownEvent", "", "")
\* The error of pmuFormat.set, as the callers pass it on.
SetError(e) ==
    [kind |-> e.kind, name |-> e.name, other |-> "", val |-> e.val, max |-> e.max]

RECURSIVE ParamLoop(_, _, _)
\* The loop of parseParamList.
ParamLoop(list, i, params) ==
    IF i > Len(list) THEN [params |-> params, err |-> nil]
    ELSE LET s == list[i] IN
         IF s.k = "" THEN [params |-> <<>>, err |-> NewError("MissingParamName", s.k, "")]
         ELSE IF ~s.eq THEN ParamLoop(list, i + 1, Append(params, eventParam(s.k, 1, TRUE)))
         ELSE IF ~s.num \/ s.v > AllOnes
         THEN [params |-> <<>>, err |-> NewError("ParamNotNumber", s.k, "")]
         ELSE ParamLoop(list, i + 1, Append(params, eventParam(s.k, s.v, FALSE)))

\* parseParamList: splitting the empty string gives one empty piece.
parseParamList(list) ==
    IF list = <<>> THEN [params |-> <<>>, err |-> NewError("MissingParamName", "", "")]
    ELSE ParamLoop(list, 1, <<>>)

\* parsePMUEvent
parsePMUEvent(name) ==
    IF ~name.slashes THEN [pmu |-> "", params |-> <<>>, err |-> errNotPMUEvent]
    ELSE With(parseParamList(name.list), LAMBDA r :
             IF r.err # nil THEN [pmu |-> "", params |-> <<>>, err |-> r.err]
             ELSE [pmu |-> name.pmu, params |-> r.params, err |-> nil])

\* Texts that hold numbers are sequences of characters.
DigitChars == <<"0", "1", "2", "3", "4", "5", "6", "7", "8", "9">>
IsDigit(c) == \E i \in 1..Len(DigitChars) : DigitChars[i] = c
DigitVal(c) == (CHOOSE i \in 1..Len(DigitChars) : DigitChars[i] = c) - 1

RECURSIVE ScanDigits(_, _, _, _)
ScanDigits(s, i, acc, n) ==
    IF i <= Len(s) /\ IsDigit(s[i])
    THEN ScanDigits(s, i + 1, acc * 10 + DigitVal(s[i]), n + 1)
    ELSE [val |-> acc, n |-> n, next |-> i]

\* A float64 as m * 10^e, m without trailing zeros.
RECURSIVE Float(_, _)
Float(m, e) ==
    IF m = 0 THEN [m |-> 0, e |-> 0]
    ELSE IF m % 10 = 0 THEN Float(m \div 10, e + 1)
    ELSE [m |-> m, e |-> e]

NoDigits(next) == [val |-> 0, n |-> 0, next |-> next]

\* The end of ScanFloat: ip, fp and ep are the digits before the point, the
\* digits before and after the point together, and the digits of the
\* exponent.
FloatOf(ip, fp, neg, ep) ==
    [ok |-> ip.n + fp.n > 0,
     val |-> Float(fp.val, (IF neg THEN 0 - ep.val ELSE ep.val) - fp.n),
     next |-> IF ep.n > 0 THEN ep.next ELSE fp.next]

\* The exponent: "e", an optional "-", and digits; without digits the "e" is
\* not part of the number.
ScanExp(s, ip, fp) ==
    IF ~(fp.next <= Len(s) /\ s[fp.next] = "e") THEN FloatOf(ip, fp, FALSE, NoDigits(fp.next))
    ELSE IF fp.next + 1 <= Len(s) /\ s[fp.next + 1] = "-"
    THEN FloatOf(ip, fp, TRUE, ScanDigits(s, fp.next + 2, 0, 0))
    ELSE FloatOf(ip, fp, FALSE, ScanDigits(s, fp.next + 1, 0, 0))

\* The fraction: "." and digits.
ScanFrac(s, ip) ==
    IF ip.next <= Len(s) /\ s[ip.next] = "."
    THEN ScanExp(s, ip, ScanDigits(s, ip.next + 1, ip.val, 0))
    ELSE ScanExp(s, ip, [val |-> ip.val, n |-> 0, next |-> ip.next])

\* Reading a decimal float from position i of s: digits, "." and digits,
\* "e" with an optional "-" and digits.
ScanFloat(s, i) == ScanFrac(s, ScanDigits(s, i, 0, 0))

\* strconv.ParseFloat: the whole text must be the number.
ParseFloat(s) ==
    With(ScanFloat(s, 1), LAMBDA r : [ok |-> r.ok /\ r.next = Len(s) + 1, val |-> r.val])

\* fmt.Sscanf(s, "%g%s", &scale, &unit) as toRawEvent uses it: a missing unit
\* is no error and leaves unit as it was.
ScanScaleUnit(s, scale, unit) ==
    With(ScanFloat(s, 1), LAMBDA r :
        IF ~r.ok THEN [ok |-> FALSE, scale |-> scale, unit |-> unit]
        ELSE [ok |-> TRUE, scale |-> r.val,
              unit |-> IF r.next > Len(s) THEN unit ELSE SubSeq(s, r.next, Len(s))])

(***************************************************************************)
(* The sysfs tree and the PMU descriptors                                  *)
(***************************************************************************)
PERF_TYPE_HARDWARE == 0
PERF_TYPE_SOFTWARE == 1
PERF_TYPE_HW_CACHE == 3
PERF_TYPE_RAW == 4

pmuEvent(name, params, scale, unit) ==
    [name |-> name, params |-> params, scale |-> scale, unit |-> unit]

\* A file of a format directory, and a file of an events directory: its name
\* up to the suffix, the suffix (".scale", ".unit", "." for any other name
\* with a dot, "" for a name without), and its content, as a parameter list
\* or as text.
FormatEntry(name, file) == [name |-> name, file |-> file]
EventEntry(name, suffix, list, text) ==
    [name |-> name, suffix |-> suffix, list |-> list, text |-> text]

\* The tree the parser's tests run on: cpu and fake, both of type RAW, files
\* in directory order; and a PMU of a dynamic type of its own.
SysfsTree ==
    [cpu |->
        [type |-> PERF_TYPE_RAW,
         format |-> << FormatEntry("edge", FormatFile("config", <<RangeEntry(18, FALSE, 0)>>)),
                       FormatEntry("event", FormatFile("config", <<RangeEntry(0, TRUE, 7)>>)),
                       FormatEntry("umask", FormatFile("config", <<RangeEntry(8, TRUE, 15)>>)) >>,
         events |-> << EventEntry("cpu-cycles", "", <<KeyVal("event", 60)>>, <<>>),
                       EventEntry("mem-stores", "",
                                  <<KeyVal("event", 208), KeyVal("umask", 130)>>, <<>>) >>],
     fake |->
        [type |-> PERF_TYPE_RAW,
         format |-> << FormatEntry("splitevent",
                                   FormatFile("config", <<RangeEntry(0, FALSE, 0),
                                                          RangeEntry(2, TRUE, 3),
                                                          RangeEntry(5, FALSE, 0)>>)) >>,
         events |-> << EventEntry("scaled", "", <<KeyVal("splitevent", 0)>>, <<>>),
                       EventEntry("scaled", ".scale", <<>>,
                                  <<"2", ".", "5", "e", "-", "1", "0">>),
                       EventEntry("scaled", ".unit", <<>>, <<"J", "o", "u", "l", "e", "s">>),
                       EventEntry("united", "", <<KeyVal("splitevent", 0)>>, <<>>),
                       EventEntry("united", ".unit", <<>>, <<"J", "o", "u", "l", "e", "s">>) >>],
     uncore |->
        [type |-> 12,
         format |-> << FormatEntry("event", FormatFile("config", <<RangeEntry(0, TRUE, 7)>>)) >>,
         events |-> << EventEntry("clockticks", "", <<KeyVal("event", 255)>>, <<>>) >>]]

RECURSIVE FormatLoop(_, _, _)
\* The constructor's walk over the format directory.
FormatLoop(files, i, format) ==
    IF i > Len(files) THEN [format |-> format, err |-> nil]
    ELSE With(pmuParseFormat(files[i].name, files[i].file), LAMBDA r :
             IF ~r.ok
             THEN [format |-> format, err |-> NewError("MalformedPMU", files[i].name, "")]
             ELSE FormatLoop(files, i + 1, (files[i].name :> r.format) @@ format))

RECURSIVE EventsLoop(_, _, _)
\* The constructor's walk over the events directory.
EventsLoop(files, i, events) ==
    IF i > Len(files) THEN [events |-> events, err |-> nil]
    ELSE LET f == files[i]
             known == f.name \in DOMAIN events
         IN CASE f.suffix = ".scale" ->
                  IF ~known THEN EventsLoop(files, i + 1, events)
                  ELSE With(ParseFloat(f.text), LAMBDA n :
                           IF ~n.ok
                           THEN [events |-> events,
                                 err |-> NewError("MalformedPMU", f.name, "")]
                           ELSE EventsLoop(files, i + 1,
                                           [events EXCEPT ![f.name].scale = n.val]))
              [] f.suffix = ".unit" ->
                  IF ~known THEN EventsLoop(files, i + 1, events)
                  ELSE EventsLoop(files, i + 1, [events EXCEPT ![f.name].unit = f.text])
              [] f.suffix = "." -> EventsLoop(files, i + 1, events)
              [] OTHER ->
                  With(parseParamList(f.list), LAMBDA r :
                      IF r.err # nil THEN [events |-> events, err |-> r.err]
                      ELSE EventsLoop(files, i + 1,
                                      (f.name :> pmuEvent(f.name, r.params, Float(1, 0), <<>>))
                                          @@ events))

pmuDesc(pmu, format, events) == [pmu |-> pmu, format |-> format, events |-> events]
NoDesc == pmuDesc(0, <<>>, <<>>)

\* The constructor of the pmus once-map; by the once-map every pmus.get(pmu)
\* returns what it returned.
pmusGet(pmu) ==
    IF pmu \notin DOMAIN SysfsTree
    THEN [desc |-> NoDesc, err |-> NewError("UnknownPMU", pmu, "")]
    ELSE With(FormatLoop(SysfsTree[pmu].format, 1, <<>>), LAMBDA fr :
             IF fr.err # nil THEN [desc |-> NoDesc, err |-> fr.err]
             ELSE With(EventsLoop(SysfsTree[pmu].events, 1, <<>>), LAMBDA er :
                      IF er.err # nil THEN [desc |-> NoDesc, err |-> er.err]
                      ELSE [desc |-> pmuDesc(SysfsTree[pmu].type, fr.format, er.events),
                            err |-> nil]))

\* pmuDesc.getFormat
getFormat(d, param) ==
    IF param \in BuiltinFormatNames THEN [f |-> BuiltinFormat(param), ok |-> TRUE]
    ELSE IF param \in DOMAIN d.format THEN [f |-> d.format[param], ok |-> TRUE]
    ELSE [f |-> pmuFormat("", "config", <<>>), ok |-> FALSE]

RECURSIVE SetParams(_, _, _, _, _)
\* The loop "for each param: getFormat, then set" that resolvePMUEvent,
\* toRawEvent and resolveEvent each run; unknown is the kind of error for a
\* parameter without format.
SetParams(d, params, i, ev, unknown) ==
    IF i > Len(params) THEN [ev |-> ev, err |-> nil]
    ELSE With(getFormat(d, params[i].k), LAMBDA g :
             IF ~g.ok THEN [ev |-> ev, err |-> NewError(unknown, params[i].k, "")]
             ELSE With(pmuFormatSet(g.f, ev, params[i].v), LAMBDA r :
                      IF r.err # NoError THEN [ev |-> r.ev, err |-> SetError(r.err)]
                      ELSE SetParams(d, params, i + 1, r.ev, unknown)))

\* resolvePMUEvent
resolvePMUEvent(pmu, eventName, ev) ==
    IF eventName \notin DOMAIN pmu.events THEN [ev |-> ev, err |-> errUnknownEvent]
    ELSE With(pmu.events[eventName], LAMBDA pmuEv :
             With(SetParams(pmu, pmuEv.params, 1, ev, "UnknownParameterInDescription"),
                  LAMBDA r :
                      IF r.err # nil THEN r
                      ELSE [ev |-> [r.ev EXCEPT !.scale = pmuEv.scale, !.unit = pmuEv.unit],
                            err |-> nil]))

(***************************************************************************)
(* Built-in events                                                         *)
(***************************************************************************)
\* A slip: the hardware table without the second names of its events.
builtinCPUFirstNames ==
    { <<"cpu-cycles", 0>>, <<"instructions", 1>>, <<"cache-references", 2>>,
      <<"cache-misses", 3>>, <<"branch-instructions", 4>>, <<"branch-misses", 5>>,
      <<"bus-cycles", 6>>, <<"stalled-cycles-frontend", 7>>,
      <<"stalled-cycles-backend", 8>>, <<"ref-cycles", 9>> }

\* builtinEvents.cpu and builtinEvents.software: name and config (the
\* kernel's PERF_COUNT_HW_* and PERF_COUNT_SW_* numbers).
builtinCPU ==
    { <<"cpu-cycles", 0>>, <<"cycles", 0>>, <<"instructions", 1>>,
      <<"cache-references", 2>>, <<"cache-misses", 3>>,
      <<"branch-instructions", 4>>, <<"branches", 4>>, <<"branch-misses", 5>>,
      <<"bus-cycles", 6>>, <<"stalled-cycles-frontend", 7>>,
      <<"idle-cycles-frontend", 7>>, <<"stalled-cycles-backend", 8>>,
      <<"idle-cycles-backend", 8>>, <<"ref-cycles", 9>> }
builtinSoftware ==
    { <<"cpu-clock", 0>>, <<"task-clock", 1>>, <<"page-faults", 2>>, <<"faults", 2>>,
      <<"context-switches", 3>>, <<"cs", 3>>, <<"cpu-migrations", 4>>,
      <<"migrations", 4>>, <<"minor-faults", 5>>, <<"major-faults", 6>>,
      <<"alignment-faults", 7>>, <<"emulation-faults", 8>>, <<"dummy", 9>>,
      <<"bpf-output", 10>> }

InTable(table, name) == \E e \in table : e[1] = name
TableGet(table, name) == (CHOOSE e \in table : e[1] = name)[2]

\* The names of the legacy-cache tables, each as its pieces between dashes,
\* with the config.
builtinCache ==
    { << <<"L1", "dcache">>, 0>>, << <<"l1", "d">>, 0>>, << <<"l1d">>, 0>>,
      << <<"L1", "data">>, 0>>,
      << <<"L1", "icache">>, 1>>, << <<"l1", "i">>, 1>>, << <<"l1i">>, 1>>,
      << <<"L1", "instruction">>, 1>>,
      << <<"LLC">>, 2>>, << <<"L2">>, 2>>,
      << <<"dTLB">>, 3>>, << <<"d", "tlb">>, 3>>, << <<"Data", "TLB">>, 3>>,
      << <<"iTLB">>, 4>>, << <<"i", "tlb">>, 4>>, << <<"Instruction", "TLB">>, 4>>,
      << <<"branch">>, 5>>, << <<"branches">>, 5>>, << <<"bpu">>, 5>>,
      << <<"btb">>, 5>>, << <<"bpc">>, 5>>,
      << <<"node">>, 6>> }
builtinCacheOp ==
    { << <<"load">>, 0>>, << <<"loads">>, 0>>, << <<"read">>, 0>>,
      << <<"store">>, 1>>, << <<"stores">>, 1>>, << <<"write">>, 1>>,
      << <<"prefetch">>, 2>>, << <<"prefetches">>, 2>>,
      << <<"speculative", "read">>, 2>>, << <<"speculative", "load">>, 2>> }
builtinCacheResult ==
    { << <<"refs">>, 0>>, << <<"Reference">>, 0>>, << <<"ops">>, 0>>,
      << <<"access">>, 0>>, << <<"misses">>, 1>>, << <<"miss">>, 1>> }
\* A slip: every operation allowed at every level.
cacheAllowedAll ==
    << {0, 1, 2}, {0, 1, 2}, {0, 1, 2}, {0, 1, 2}, {0, 1, 2}, {0, 1, 2}, {0, 1, 2} >>

\* builtinEvents.cacheAllowed: cache level -> the ops allowed
cacheAllowed ==
    << {0, 1, 2}, {0, 2}, {0, 1, 2}, {0, 1, 2}, {0}, {0}, {0, 1, 2} >>

\* An event name as its pieces between dashes.
DashSplit(name) ==
    CASE name = "cpu-cycles" -> <<"cpu", "cycles">>
      [] name = "cpu-clock" -> <<"cpu", "clock">>
      [] name = "mem-stores" -> <<"mem", "stores">>
      [] OTHER -> <<name>>
EmptyText == <<"">>

\* findCache: s is the name, or starts with the name and a dash.  In each
\* table no name is another followed by a dash, so at most one entry matches
\* and the order of the table does not matter.
CacheMatches(s, e) == Len(e[1]) <= Len(s) /\ SubSeq(s, 1, Len(e[1])) = e[1]
findCache(s, names) ==
    IF \E e \in names : CacheMatches(s, e)
    THEN With(CHOOSE e \in names : CacheMatches(s, e), LAMBDA e :
             [config |-> e[2],
              rest |-> IF Len(e[1]) = Len(s) THEN EmptyText
                       ELSE SubSeq(s, Len(e[1]) + 1, Len(s)),
              ok |-> TRUE])
    ELSE [config |-> 0, rest |-> EmptyText, ok |-> FALSE]

RECURSIVE CacheLoopAnyTwo(_, _, _, _, _, _)
\* A slip: two more fields of either kind are taken, a second operation or
\* a second result replacing the first.
CacheLoopAnyTwo(i, s, op, result, haveOp, haveResult) ==
    IF ~(i < 2 /\ s # EmptyText) THEN [s |-> s, op |-> op, result |-> result]
    ELSE With(findCache(s, builtinCacheOp), LAMBDA o :
             IF o.ok
             THEN CacheLoopAnyTwo(i + 1, o.rest, o.config, result, TRUE, haveResult)
             ELSE With(findCache(s, builtinCacheResult), LAMBDA r :
                      IF r.ok
                      THEN CacheLoopAnyTwo(i + 1, r.rest, op, r.config, haveOp, TRUE)
                      ELSE CacheLoopAnyTwo(i + 1, s, op, result, haveOp, haveResult)))

RECURSIVE CacheLoop(_, _, _, _, _, _)
\* The loop over up to two more fields, op and result.
CacheLoop(i, s, op, result, haveOp, haveResult) ==
    IF ~(i < 2 /\ s # EmptyText) THEN [s |-> s, op |-> op, result |-> result]
    ELSE With(findCache(s, builtinCacheOp), LAMBDA o :
             IF ~haveOp /\ o.ok
             THEN CacheLoop(i + 1, o.rest, o.config, result, TRUE, haveResult)
             ELSE With(findCache(s, builtinCacheResult), LAMBDA r :
                      IF ~haveResult /\ r.ok
                      THEN CacheLoop(i + 1, r.rest, op, r.config, haveOp, TRUE)
                      ELSE CacheLoop(i + 1, s, op, result, haveOp, haveResult)))

builtinEvent(pmu, config) == [pmu |-> pmu, config |-> config]
NoBuiltin == [ev |-> builtinEvent(0, 0), ok |-> FALSE]

RECURSIVE Join(_)
\* The name whose pieces between dashes are s.
Join(s) == IF Len(s) = 1 THEN s[1] ELSE s[1] \o "-" \o Join(Tail(s))

\* resolveBuiltinEvent, the event name given as its pieces between dashes.
resolveBuiltinEvent(pmu, eventName) ==
    IF ~(pmu = "" \/ pmu = "cpu") THEN NoBuiltin
    ELSE IF InTable(builtinCPU, Join(eventName))
    THEN [ev |-> builtinEvent(PERF_TYPE_HARDWARE, TableGet(builtinCPU, Join(eventName))),
          ok |-> TRUE]
    ELSE IF pmu = "" /\ InTable(builtinSoftware, Join(eventName))
    THEN [ev |-> builtinEvent(PERF_TYPE_SOFTWARE,
                              TableGet(builtinSoftware, Join(eventName))),
          ok |-> TRUE]
    ELSE With(findCache(eventName, builtinCache), LAMBDA c :
             IF ~c.ok THEN NoBuiltin
             ELSE With(CacheLoop(0, c.rest, 0, 0, FALSE, FALSE), LAMBDA l :
                      IF l.s = EmptyText /\ l.op \in cacheAllowed[c.config + 1]
                      THEN [ev |-> builtinEvent(
                                       PERF_TYPE_HW_CACHE,
                                       BitOr(c.config, BitOr(Shl(l.op, 8), Shl(l.result, 16)))),
                            ok |-> TRUE]
                      ELSE NoBuiltin))

\* The event names tried: up to MaxTokens pieces joined by dashes, among them
\* pieces of the tables' names, a piece no table has, a cache name with a
\* letter glued on, and the empty piece (a name that begins or ends with a
\* dash, or has two dashes in a row).
MaxTokens == 3
BuiltinTokens ==
    { "l1d", "L1", "dcache", "bpu", "branches", "loads", "stores", "speculative", "read",
      "misses", "cycles", "cs", "x", "l1dx", "" }
BuiltinNames == SeqsUpTo(BuiltinTokens, MaxTokens) \ {<<>>}
BuiltinPMUs == {"", "cpu", "fake"}

NotResolved == [done |-> FALSE, ev |-> builtinEvent(0, 0), ok |-> FALSE]

BuiltinIdle ==
    /\ biPmu = ""
    /\ biName = <<"x">>
    /\ biOut = NotResolved

BuiltinInit ==
    /\ biPmu \in BuiltinPMUs
    /\ biName \in BuiltinNames
    /\ biOut = NotResolved

\* resolveBuiltinEvent(biPmu, biName)
DoResolveBuiltin ==
    /\ ~biOut.done
    /\ biOut' = With(resolveBuiltinEvent(biPmu, biName), LAMBDA r :
                     [done |-> TRUE, ev |-> r.ev, ok |-> r.ok])
    /\ UNCHANGED <<biPmu, biName>>
    /\ UNCHANGED notBuiltin

NextBuiltin ==
    \/ DoResolveBuiltin

(***************************************************************************)
(* The extended event index (perf list -j)                                 *)
(***************************************************************************)
perfJson(EventName, EventAlias, Encoding, ScaleUnit) ==
    [EventName |-> EventName, EventAlias |-> EventAlias, Encoding |-> Encoding,
     ScaleUnit |-> ScaleUnit]

\* The output of the tool the parser's tests use, and an event the tool
\* lists without an encoding.
PerfListJ ==
    << perfJson("l1d.replacement", "",
                PMUName("cpu", <<KeyVal("event", 81), KeyVal("period", 100003),
                                 KeyVal("umask", 1)>>),
                <<>>),
       perfJson("fakescaled", "", PMUName("cpu", <<KeyVal("event", 0)>>),
                <<"1", "0", "0", "%">>),
       perfJson("noenc", "", EmptyString, <<>>) >>

\* What running the tool gives: its output, that the command is not found,
\* that it does not know -j, or another failure.
PerfTools == {"ok", "notFound", "tooOld", "failed"}

RECURSIVE PerfMap(_, _, _)
\* The map parsePerfList builds: later records replace earlier ones.
PerfMap(list, i, m) ==
    IF i > Len(list) THEN m
    ELSE LET ev == list[i]
             m1 == IF ev.EventName # "" THEN (ev.EventName :> ev) @@ m ELSE m
             m2 == IF ev.EventAlias # "" THEN (ev.EventAlias :> ev) @@ m1 ELSE m1
         IN PerfMap(list, i + 1, m2)

\* parsePerfList on what the tool gave; getPerfList returns this every time.
getPerfList(tool) ==
    CASE tool = "notFound" -> [list |-> <<>>, err |-> NewError("PerfNotFound", "", "")]
      [] tool = "tooOld" -> [list |-> <<>>, err |-> NewError("PerfTooOld", "", "")]
      [] tool = "failed" -> [list |-> <<>>, err |-> NewError("PerfListFailed", "", "")]
      [] OTHER -> [list |-> PerfMap(PerfListJ, 1, <<>>), err |-> nil]

\* perfJson.toRawEvent.  scale and unit are read from ScaleUnit into local
\* variables; nothing is done with them after that.
toRawEvent(evJSON, pmu, ev) ==
    IF evJSON.Encoding = EmptyString
    THEN [ev |-> ev, err |-> NewError("UnsupportedEvent", evJSON.EventName, "")]
    ELSE With(parsePMUEvent(evJSON.Encoding), LAMBDA p :
             IF p.err # nil \/ p.pmu # "cpu"
             THEN [ev |-> ev, err |-> NewError("UnexpectedEncoding", evJSON.EventName, "")]
             ELSE IF evJSON.ScaleUnit # <<>>
                     /\ ~ScanScaleUnit(evJSON.ScaleUnit, Float(1, 0), <<>>).ok
             THEN [ev |-> ev, err |-> NewError("UnexpectedScaleUnit", evJSON.EventName, "")]
             ELSE SetParams(pmu, p.params, 1, ev, "UnknownParameterInEncoding"))

\* resolvePerfJsonEvent
resolvePerfJsonEvent(pmu, eventName, ev, tool) ==
    IF pmu.pmu # PERF_TYPE_RAW THEN [ev |-> ev, err |-> errUnknownEvent]
    ELSE With(getPerfList(tool), LAMBDA l :
             IF l.err # nil THEN [ev |-> ev, err |-> l.err]
             ELSE IF eventName \notin DOMAIN l.list THEN [ev |-> ev, err |-> errUnknownEvent]
             ELSE toRawEvent(l.list[eventName], pmu, ev))

(***************************************************************************)
(* ParseEvent                                                              *)
(***************************************************************************)
\* What a resolver gave, with the resolver's name.
Via(r, via) == [ev |-> r.ev, err |-> r.err, via |-> via]

\* The loop over eventResolvers for one key-only parameter: the first
\* resolver that does not say errUnknownEvent decides.
TryResolvers(desc, k, ev, tool) ==
    With(resolvePMUEvent(desc, k, ev), LAMBDA r1 :
        IF r1.err # errUnknownEvent THEN Via(r1, "sysfs")
        ELSE Via(resolvePerfJsonEvent(desc, k, ev, tool), "perfjson"))

RECURSIVE ClassifyLastEventWins(_, _, _, _, _, _)
\* A slip: a second event name takes the place of the first.
ClassifyLastEventWins(desc, params, i, st, symEvent, tool) ==
    IF i > Len(params) THEN st
    ELSE IF getFormat(desc, params[i].k).ok
    THEN ClassifyLastEventWins(desc, params, i + 1, st, symEvent, tool)
    ELSE With(IF params[i].kOnly THEN TryResolvers(desc, params[i].k, st.ev, tool)
              ELSE [ev |-> st.ev, err |-> errUnknownEvent, via |-> ""],
              LAMBDA r :
                  IF r.err = nil
                  THEN ClassifyLastEventWins(desc, params, i + 1,
                                             [st EXCEPT !.ev = r.ev, !.idx = i,
                                                        !.name = params[i].k, !.via = r.via],
                                             symEvent, tool)
                  ELSE IF r.err # errUnknownEvent THEN [st EXCEPT !.err = r.err]
                  ELSE IF symEvent THEN [st EXCEPT !.err = NewError("UnknownEvent", "", "")]
                  ELSE [st EXCEPT !.err = NewError("UnknownEventOrParameter", params[i].k, "")])

RECURSIVE ClassifyParams(_, _, _, _, _, _)
\* The first loop of resolveEvent: each parameter is a format name or, when
\* key-only, an event name.  st holds event, eventNameIndex (0 for none), the
\* name of the event found and the resolver that found it.
ClassifyParams(desc, params, i, st, symEvent, tool) ==
    IF i > Len(params) THEN st
    ELSE IF getFormat(desc, params[i].k).ok
    THEN ClassifyParams(desc, params, i + 1, st, symEvent, tool)
    ELSE With(IF params[i].kOnly THEN TryResolvers(desc, params[i].k, st.ev, tool)
              ELSE [ev |-> st.ev, err |-> errUnknownEvent, via |-> ""],
              LAMBDA r :
                  IF r.err = nil
                  THEN IF st.idx # 0
                       THEN [st EXCEPT !.err = NewError("MultipleEvents", st.name, params[i].k)]
                       ELSE ClassifyParams(desc, params, i + 1,
                                           [st EXCEPT !.ev = r.ev, !.idx = i,
                                                      !.name = params[i].k, !.via = r.via],
                                           symEvent, tool)
                  ELSE IF r.err # errUnknownEvent THEN [st EXCEPT !.err = r.err]
                  ELSE IF symEvent THEN [st EXCEPT !.err = NewError("UnknownEvent", "", "")]
                  ELSE [st EXCEPT !.err = NewError("UnknownEventOrParameter", params[i].k, "")])

\* A slip: only the parameters after the event name are kept.
ParamsAfterEvent(params, idx) ==
    IF idx = 0 THEN params ELSE SubSeq(params, idx + 1, Len(params))

\* The parameters resolveEvent sets in its second loop: all but the event
\* name.  The resolver has written the event's own parameters into the
\* record by then.
OtherParams(params, idx) ==
    IF idx = 0 THEN params
    ELSE SubSeq(params, 1, idx - 1) \o SubSeq(params, idx + 1, Len(params))

Resolved(ev, err, via, idx) ==
    [done |-> TRUE, ev |-> ev, err |-> err, via |-> via, idx |-> idx]

\* A slip: the built-in table is tried whatever else the list holds.
BuiltinAnyParams(params) == Len(params) >= 1 /\ params[1].kOnly

\* The condition under which resolveEvent tries the built-in events.
BuiltinOnly(params) == Len(params) = 1 /\ params[1].kOnly

\* resolveEvent after the built-in events: the PMU's descriptor, the first
\* loop, then the second.
resolvePMU(event, pmu, symEvent, params, tool) ==
    With(pmusGet(pmu), LAMBDA d :
        IF d.err # nil THEN Resolved(event, d.err, "", 0)
        ELSE With(ClassifyParams(d.desc, params, 1,
                                 [ev |-> [event EXCEPT !.pmu = d.desc.pmu], idx |-> 0,
                                  name |-> "", via |-> "", err |-> nil],
                                 symEvent, tool),
                  LAMBDA st :
                      IF st.err # nil THEN Resolved(st.ev, st.err, "", 0)
                      ELSE With(SetParams(d.desc, OtherParams(params, st.idx), 1, st.ev,
                                          "UnknownParameterInDescription"),
                                LAMBDA r :
                                    Resolved(r.ev, r.err,
                                             IF st.idx = 0 THEN "format" ELSE st.via,
                                             st.idx))))

\* resolveEvent
resolveEvent(enc, pmu, params, tool) ==
    With(IF BuiltinOnly(params) THEN resolveBuiltinEvent(pmu, DashSplit(params[1].k)) ELSE NoBuiltin,
         LAMBDA b :
             IF b.ok
             THEN Resolved([rawEvent(enc) EXCEPT !.pmu = b.ev.pmu, !.config = b.ev.config],
                           nil, "builtin", 0)
             ELSE resolvePMU(rawEvent(enc), IF pmu = "" THEN "cpu" ELSE pmu, pmu = "",
                             params, tool))

\* ParseEvent: a string that is not of the form pmu/.../ is one key-only
\* parameter without PMU.
ParseEvent(name, tool) ==
    With(parsePMUEvent(name), LAMBDA p :
        IF p.err = errNotPMUEvent
        THEN resolveEvent(name, "",
                          << [k |-> (IF name.list = <<>> THEN "" ELSE name.list[1].k),
                              v |-> 0, kOnly |-> TRUE] >>,
                          tool)
        ELSE IF p.err # nil THEN Resolved(rawEvent(name), p.err, "", 0)
        ELSE resolveEvent(name, p.pmu, p.params, tool))

\* The names and parameters tried.
ParamPieces ==
    { KeyOnly(k) : k \in {"mem-stores", "cpu-cycles", "l1d.replacement", "fakescaled",
                          "noenc", "l1d", "cpu-clock", "scaled", "edge", "bad"} }
        \cup { KeyVal("umask", 42), KeyVal("event", 1), KeyVal("edge", 2), KeyVal("config", 5),
               KeyVal("splitevent", 5), KeyVal("bad", 25), KeyText("event") }
PMUNames == {"cpu", "fake", "uncore", "bad"}
EventStrings ==
    { BareName(p.k) : p \in { q \in ParamPieces : ~q.eq } }
        \cup { BareName("config"), BareName("period") }
        \cup { PMUName(pmu, list) : pmu \in PMUNames, list \in SeqsUpTo(ParamPieces, MaxParams) }

NotParsed == [done |-> FALSE, ev |-> rawEvent(EmptyString), err |-> nil, via |-> "", idx |-> 0]

ParseIdle ==
    /\ perfTool = "ok"
    /\ parseIn = EmptyString
    /\ parseOut = NotParsed

ParseInit ==
    /\ perfTool \in PerfTools
    /\ parseIn \in EventStrings
    /\ parseOut = NotParsed

\* ParseEvent(parseIn)
DoParse ==
    /\ ~parseOut.done
    /\ parseOut' = ParseEvent(parseIn, perfTool)
    /\ UNCHANGED <<perfTool, parseIn>>
    /\ UNCHANGED notParse

NextParse ==
    \/ DoParse

(***************************************************************************)
(* Benchmark adapter                                                       *)
(***************************************************************************)
MaxBench == 2

\* The names of defaultEvents: the first two of its entries.
DefaultNames == <<"cpu-cycles", "instructions">>

\* defaultEvents as OpenCounter sees it at one open: failing holds the
\* positions of the events the kernel refuses this time.
defaultEvents(failing) ==
    [i \in 1..Len(DefaultNames) |->
        [name |-> DefaultNames[i], attrErr |-> FALSE, openErr |-> i \in failing]]

Failings == SUBSET (1..Len(DefaultNames))

\* b.N of the benchmarks tried.
BenchIters == {1, 2}

\* The names given to Total: the default events, the empty name and one
\* that no event has.
TotalNames == { DefaultNames[i] : i \in 1..Len(DefaultNames) } \cup {"", "nosuch"}

\* fmt.Sprintf("error opening counter %s: %v", event, err)
OpenErrorMsg(event, err) == [text |-> "error opening counter", event |-> event, err |-> err]

\* fmt.Errorf("error reading %s: %w", c.event, err)
ReadErrorMsg(event, err) == [text |-> "error reading", event |-> event, err |-> err]

\* A plausible slip: Store in place of Swap, which tells nothing about an
\* earlier entry.
MapStore(m, key) == [m |-> m \cup {key}, prev |-> FALSE]

\* openErrors.Swap(msg, true): one atomic step that stores the key and says
\* whether it was there.
MapSwap(m, key) == [m |-> m \cup {key}, prev |-> key \in m]

\* counter{event, counter, name, baseline}
BenchCounter(event, counter, name, baseline) ==
    [event |-> event, counter |-> counter, name |-> name, baseline |-> baseline]

\* counter{}: what make([]counter, n) holds.
ZeroBenchCounter == BenchCounter("", NilCounter, "", ZeroCount)

\* name := event.String(), with "-" and the unit for an event that has one.
CounterName(ev) ==
    IF EventScaleUnit(ev).unit # ""
    THEN ev.name \o "-" \o EventScaleUnit(ev).unit
    ELSE ev.name

\* One iteration of the loop of open.  Only the first occurrence of an error
\* message is logged and skips the rest of the body; a repeated one goes on
\* to fill cs.c[i] with the nil Counter.
OpenIter(ev, seen, kopen) ==
    With(OpenCounter(<<ev>>, kopen), LAMBDA r :
    With(OpenErrorMsg(ev.name, r.err), LAMBDA msg :
    With(MapSwap(seen, msg), LAMBDA sw :
        IF r.err # "nil" /\ ~sw.prev
        THEN [entry |-> ZeroBenchCounter, seen |-> sw.m, logs |-> <<msg>>,
              met |-> <<msg>>, kopen |-> r.kopen]
        ELSE [entry |-> BenchCounter(ev.name, r.c, CounterName(ev), ZeroCount),
              seen |-> IF r.err # "nil" THEN sw.m ELSE seen, logs |-> <<>>,
              met |-> IF r.err # "nil" THEN <<msg>> ELSE <<>>, kopen |-> r.kopen])))

RECURSIVE OpenLoop(_, _, _)
\* for i, event := range defaultEvents { ... }
OpenLoop(evs, i, st) ==
    IF i > Len(evs) THEN st
    ELSE With(OpenIter(evs[i], st.seen, st.kopen), LAMBDA r :
         OpenLoop(evs, i + 1,
                  [c |-> Append(st.c, r.entry), seen |-> r.seen,
                   logs |-> st.logs \o r.logs, met |-> st.met \o r.met,
                   kopen |-> r.kopen]))

\* for _, c := range cs.c { c.counter.Op() }: what Op gives for each entry.
ForCounters(c, Op(_)) == [i \in 1..Len(c) |-> Op(c[i].counter)]

\* The entries, the kernel and the descriptors after such a loop; a panic
\* ends the loop at the entry that raised it.
Applied(c, k, fds, res) ==
    With({ i \in 1..Len(c) : res[i].res = "panic" }, LAMBDA bad :
    With(IF bad = {} THEN Len(c) ELSE CHOOSE i \in bad : \A j \in bad : i <= j,
         LAMBDA last :
        [c |-> [i \in 1..Len(c) |->
                  IF i <= last THEN [c[i] EXCEPT !.counter = res[i].c] ELSE c[i]],
         k |-> [i \in 1..Len(c) |->
                  IF i <= last THEN KernelCalls(k[i], res[i].calls) ELSE k[i]],
         fds |-> fds \ UNION { ClosedFds(res[i].calls) : i \in 1..last },
         panic |-> bad # {}]))

\* startOS
startOS(c, k, fds) == Applied(c, k, fds, ForCounters(c, CounterStart))

\* stopOS
stopOS(c, k, fds) == Applied(c, k, fds, ForCounters(c, CounterStop))

\* A plausible slip: Reset keeps the raw value only and leaves the times of
\* the baseline at zero.
resetRawOnly(c, k) ==
    [i \in 1..Len(c) |->
        [c[i] EXCEPT !.baseline =
            [CounterReadOne(c[i].counter, KernelRecord(k[i])).count
                EXCEPT !.TimeEnabled = 0, !.TimeRunning = 0]]]

\* resetOS: c.baseline, _ = c.counter.ReadOne() for every entry.
resetOS(c, k) ==
    [i \in 1..Len(c) |->
        [c[i] EXCEPT !.baseline = CounterReadOne(c[i].counter, KernelRecord(k[i])).count]]

\* +Inf, a finite float64 as the fraction num/den, and an error.
Inf == [inf |-> TRUE, num |-> 0, den |-> 1, err |-> "nil"]
Finite(num, den) == [inf |-> FALSE, num |-> num, den |-> den, err |-> "nil"]
ReadFailed(err) == [inf |-> FALSE, num |-> 0, den |-> 1, err |-> err]

\* counter.read(): the Count read now less the baseline, field by field;
\* +Inf when the counter has not run since the baseline.  The differences
\* are used on a successful read only, where the baseline is an earlier
\* read of the same counter and uint64 does not wrap.
read(e, rec) ==
    With(CounterReadOne(e.counter, rec), LAMBDA r :
    With([r.count EXCEPT !.RawValue = @ - e.baseline.RawValue,
                         !.TimeEnabled = @ - e.baseline.TimeEnabled,
                         !.TimeRunning = @ - e.baseline.TimeRunning], LAMBDA val :
        IF r.err # "nil" THEN ReadFailed(r.err)
        ELSE IF val.TimeRunning = 0 THEN Inf
        ELSE Finite(CountValue(val).num, CountValue(val).den)))

\* What Total returns: (val, ok).
TotalResult(val, ok) == [val |-> val, ok |-> ok]

RECURSIVE totalOS(_, _, _, _)
\* totalOS: the first entry of that name is read; an error or no such
\* entry gives (0, false).
totalOS(c, k, name, i) ==
    IF i > Len(c) THEN TotalResult(Finite(0, 1), FALSE)
    ELSE IF name = c[i].name
    THEN With(read(c[i], KernelRecord(k[i])), LAMBDA v :
         IF v.err # "nil" THEN TotalResult(Finite(0, 1), FALSE)
         ELSE TotalResult(v, TRUE))
    ELSE totalOS(c, k, name, i + 1)

\* b.ReportMetric(n, unit), n as the fraction num/den.
Metric(num, den, unit) == [num |-> num, den |-> den, unit |-> unit]

\* A plausible slip: the total is reported, not the total per iteration.
ReportTotal(v, bN, name) == Metric(v.num, v.den, name \o "/op")

\* The metric of close: val/float64(cs.bN) under c.name+"/op".
ReportPerOp(v, bN, name) == Metric(v.num, v.den * bN, name \o "/op")

RECURSIVE closeLoop(_, _, _, _, _)
\* The loop of close: each entry is read, its metric reported or its error
\* logged, and its counter closed.
closeLoop(st, k, bN, by, i) ==
    IF i > Len(st.c) THEN st
    ELSE With(read(st.c[i], KernelRecord(k[i])), LAMBDA v :
         With(CounterClose(st.c[i].counter), LAMBDA cl :
         closeLoop(
              [c |-> [st.c EXCEPT ![i].counter = cl.c],
               logs |-> IF v.err # "nil"
                        THEN Append(st.logs, [by |-> by,
                                              msg |-> ReadErrorMsg(st.c[i].event, v.err)])
                        ELSE st.logs,
               metrics |-> IF v.err = "nil" /\ ~v.inf
                           THEN Append(st.metrics, ReportPerOp(v, bN, st.c[i].name))
                           ELSE st.metrics,
               calls |-> Append(st.calls, cl.calls)],
              k, bN, by, i + 1)))

\* No Counters yet.
NoCounters == [id |-> 0, b |-> "nil", bN |-> 0, c |-> <<>>, failed |-> {}, panic |-> FALSE]

NoLast == [op |-> "none", name |-> "", b |-> "nil", r |-> TotalResult(Finite(0, 1), FALSE)]

\* The times and the value the kernel holds for one counter.
Snapshot(k) == [te |-> k.te, tr |-> k.tr, raw |-> IF Len(k.vals) > 0 THEN k.vals[1] ELSE 0]

Openers == 1..MaxBench

BenchInit ==
    /\ pbSeen = {}
    /\ pbMet = <<>>
    /\ pbLog = <<>>
    /\ pbFds = {}
    /\ pbCs = NoCounters
    /\ pbK = <<>>
    /\ pbK0 = <<>>
    /\ pbMetrics = <<>>
    /\ pbLast = NoLast
    /\ pbPc = [g \in Openers |-> [i |-> 1, c |-> <<>>]]

Tagged(by, msgs) == [i \in 1..Len(msgs) |-> [by |-> by, msg |-> msgs[i]]]

\* cs := open(b, bN) in a benchmark that starts when the one before it has
\* been cleaned up: the loop, b.Cleanup(cs.close) and cs.Start().
BenchOpen(failing, bN) ==
    /\ pbCs.b = "nil" /\ ~pbCs.panic /\ pbCs.id < MaxBench
    /\ LET by == pbCs.id + 1
           st == OpenLoop(defaultEvents(failing), 1,
                          [c |-> <<>>, seen |-> pbSeen, logs |-> <<>>, met |-> <<>>,
                           kopen |-> pbFds])
           k == [i \in 1..Len(st.c) |->
                    KernelOpened(IF st.c[i].counter.isNil THEN 0 ELSE 1)]
           s == startOS(st.c, k, st.kopen)
       IN /\ pbSeen' = st.seen
          /\ pbMet' = pbMet \o Tagged(by, st.met)
          /\ pbLog' = pbLog \o Tagged(by, st.logs)
          /\ pbCs' = [id |-> by, b |-> "b", bN |-> bN, c |-> s.c, failed |-> failing,
                      panic |-> s.panic]
          /\ pbK' = s.k
          /\ pbK0' = [i \in 1..Len(k) |-> Snapshot(k[i])]
          /\ pbFds' = s.fds
    /\ pbMetrics' = <<>>
    /\ pbLast' = NoLast
    /\ UNCHANGED pbPc
    /\ UNCHANGED notBench

BenchLoop(s) ==
    /\ pbCs' = [pbCs EXCEPT !.c = s.c, !.panic = s.panic]
    /\ pbK' = s.k
    /\ pbFds' = s.fds
    /\ pbLast' = NoLast
    /\ UNCHANGED <<pbSeen, pbMet, pbLog, pbK0, pbMetrics, pbPc>>
    /\ UNCHANGED notBench

\* cs.Start()
BenchStart ==
    /\ pbCs.id > 0 /\ ~pbCs.panic
    /\ BenchLoop(startOS(pbCs.c, pbK, pbFds))

\* cs.Stop()
BenchStop ==
    /\ pbCs.id > 0 /\ ~pbCs.panic
    /\ BenchLoop(stopOS(pbCs.c, pbK, pbFds))

\* cs.Reset()
BenchReset ==
    /\ pbCs.id > 0 /\ ~pbCs.panic
    /\ pbCs' = [pbCs EXCEPT !.c = resetOS(pbCs.c, pbK)]
    /\ pbK0' = [i \in 1..Len(pbK) |-> Snapshot(pbK[i])]
    /\ pbLast' = NoLast
    /\ UNCHANGED <<pbSeen, pbMet, pbLog, pbFds, pbK, pbMetrics, pbPc>>
    /\ UNCHANGED notBench

\* cs.Total(name)
BenchTotal(name) ==
    /\ pbCs.id > 0 /\ ~pbCs.panic
    /\ pbLast' = [op |-> "Total", name |-> name, b |-> pbCs.b,
                  r |-> totalOS(pbCs.c, pbK, name, 1)]
    /\ UNCHANGED <<pbSeen, pbMet, pbLog, pbFds, pbCs, pbK, pbK0, pbMetrics, pbPc>>
    /\ UNCHANGED notBench

\* cs.close(), from the cleanup of b or called again afterwards.
BenchClose ==
    /\ pbCs.id > 0 /\ ~pbCs.panic
    /\ pbLast' = [NoLast EXCEPT !.op = "close", !.b = pbCs.b]
    /\ IF pbCs.b = "nil"
       THEN UNCHANGED <<pbLog, pbFds, pbCs, pbK, pbMetrics>>
       ELSE LET s == stopOS(pbCs.c, pbK, pbFds) IN
            IF s.panic
            THEN /\ pbCs' = [pbCs EXCEPT !.c = s.c, !.panic = TRUE]
                 /\ pbK' = s.k
                 /\ UNCHANGED <<pbLog, pbFds, pbMetrics>>
            ELSE LET st == closeLoop([c |-> s.c, logs |-> pbLog, metrics |-> pbMetrics,
                                      calls |-> <<>>],
                                     s.k, pbCs.bN, pbCs.id, 1)
                 IN /\ pbCs' = [pbCs EXCEPT !.c = st.c, !.b = "nil"]
                    /\ pbK' = [i \in 1..Len(s.k) |-> KernelCalls(s.k[i], st.calls[i])]
                    /\ pbFds' = s.fds \ UNION { ClosedFds(st.calls[i]) : i \in 1..Len(st.calls) }
                    /\ pbLog' = st.logs
                    /\ pbMetrics' = st.metrics
    /\ UNCHANGED <<pbSeen, pbMet, pbK0, pbPc>>
    /\ UNCHANGED notBench

\* Time passes on the benchmark's thread: every enabled counter is enabled
\* longer, and when the kernel has them on the PMU (sched) they run and the
\* counter of entry i counts i more.
BenchRun(sched) ==
    /\ pbCs.id > 0 /\ ~pbCs.panic
    /\ \E i \in 1..Len(pbK) : pbK[i].enabled
    /\ \A i \in 1..Len(pbK) : pbK[i].enabled => pbK[i].te < MaxTicks
    /\ pbK' = [i \in 1..Len(pbK) |->
                 IF ~pbK[i].enabled THEN pbK[i]
                 ELSE IF sched
                 THEN [pbK[i] EXCEPT !.te = @ + 1, !.tr = @ + 1,
                                     !.vals = [j \in 1..Len(@) |-> @[j] + i]]
                 ELSE [pbK[i] EXCEPT !.te = @ + 1]]
    /\ pbLast' = NoLast
    /\ UNCHANGED <<pbSeen, pbMet, pbLog, pbFds, pbCs, pbK0, pbMetrics, pbPc>>
    /\ UNCHANGED notBench

NextBench ==
    \/ \E failing \in Failings, bN \in BenchIters : BenchOpen(failing, bN)
    \/ BenchStart
    \/ BenchStop
    \/ BenchReset
    \/ \E name \in TotalNames : BenchTotal(name)
    \/ BenchClose
    \/ \E sched \in BOOLEAN : BenchRun(sched)

\* One iteration of the loop of open on goroutine g, among the iterations of
\* the opens that run on the other goroutines.
OpenerStep(g, fail) ==
    /\ pbPc[g].i <= Len(DefaultNames)
    /\ LET i == pbPc[g].i
           r == OpenIter(defaultEvents(IF fail THEN {i} ELSE {})[i], pbSeen, pbFds)
       IN /\ pbSeen' = r.seen
          /\ pbMet' = pbMet \o Tagged(g, r.met)
          /\ pbLog' = pbLog \o Tagged(g, r.logs)
          /\ pbFds' = r.kopen
          /\ pbPc' = [pbPc EXCEPT ![g] = [i |-> i + 1, c |-> Append(@.c, r.entry)]]
    /\ UNCHANGED <<pbCs, pbK, pbK0, pbMetrics, pbLast>>
    /\ UNCHANGED notBench

NextOpeners ==
    \/ \E g \in Openers, fail \in BOOLEAN : OpenerStep(g, fail)

(***************************************************************************)
(* Specifications                                                          *)
(***************************************************************************)
\* Every specification starts from the state after construction of all the
\* subsystems and then runs one of them.
Init ==
    OnceInit /\ CtrInit /\ FmtIdle /\ ParseIdle /\ BuiltinIdle /\ ReadIdle /\ ValueIdle
    /\ BenchInit

SpecOnce == Init /\ [][NextOnce]_vars
SpecCtr == Init /\ [][NextCtr]_vars

\* set applied to every format and value tried.
InitFmt ==
    OnceInit /\ CtrInit /\ FmtInit /\ ParseIdle /\ BuiltinIdle /\ ReadIdle /\ ValueIdle
    /\ BenchInit
SpecFmt == InitFmt /\ [][NextFmt]_vars

\* ParseEvent applied to every event string tried, on a machine with each
\* kind of perf tool.
InitParse ==
    OnceInit /\ CtrInit /\ FmtIdle /\ ParseInit /\ BuiltinIdle /\ ReadIdle /\ ValueIdle
    /\ BenchInit
SpecParse == InitParse /\ [][NextParse]_vars

\* resolveBuiltinEvent applied to every PMU name and event name tried.
InitBuiltin ==
    OnceInit /\ CtrInit /\ FmtIdle /\ ParseIdle /\ BuiltinInit /\ ReadIdle /\ ValueIdle
    /\ BenchInit
SpecBuiltin == InitBuiltin /\ [][NextBuiltin]_vars

\* The calls on one opened Counter, in every order, while the kernel counts.
InitRead ==
    OnceInit /\ CtrInit /\ FmtIdle /\ ParseIdle /\ BuiltinIdle /\ ReadInit /\ ValueIdle
    /\ BenchInit
SpecRead == InitRead /\ [][NextRead]_vars

\* Value applied to every Count tried.
InitValue ==
    OnceInit /\ CtrInit /\ FmtIdle /\ ParseIdle /\ BuiltinIdle /\ ReadIdle /\ ValueInit
    /\ BenchInit
SpecValue == InitValue /\ [][NextValue]_vars

\* The benchmarks of one process, one after the other, each with its
\* Counters: open, the calls on it in every order, and the cleanup.
SpecBench == Init /\ [][NextBench]_vars

\* The loops of the opens that run at the same time on several goroutines.
SpecOpeners == Init /\ [][NextOpeners]_vars

(***************************************************************************)
(* Claims                                                                  *)
(***************************************************************************)

Constructing(p) == omPc[p] \in {"new", "fin"}
Returned(p) == omRet[p].key # 0
RetPair(p) == [val |-> omRet[p].val, err |-> omRet[p].err]

\* C1: for every key the constructor m.new runs at most once, however many
\* goroutines call get(key) and however they interleave, and whatever any
\* get(key) has returned is the (value, error) pair of that one construction.
C1_ConstructedOnceSameOutcome ==
    /\ \A k \in Keys : omNew[k] <= 1 /\ Len(omBuilt[k]) <= 1
    /\ \A p \in Procs :
          Returned(p) =>
              /\ Len(omBuilt[omRet[p].key]) = 1
              /\ RetPair(p) = omBuilt[omRet[p].key][1]

\* Two goroutines both missed in Load for key 1, so one of them lost the race
\* in LoadOrStore, and both have returned from get(1).
C1_Witness ==
    /\ omMap[2] = 0
    /\ Len(omEnts) >= 2
    /\ omRet[1].key = 1 /\ omRet[2].key = 1
    /\ omPc[1] = "idle" /\ omPc[2] = "idle"

\* C2: a get that arrives while the construction for its key is running does
\* not get past once.Do before the construction has completed: a goroutine
\* about to return reads an entry whose Once is done, no get has returned the
\* zero entry (zero value and nil error), and no two goroutines are inside
\* the constructor for the same key.
C2_WaitersBlockUntilBuilt ==
    /\ \A p \in Procs : omPc[p] = "ret" => omEnts[omEnt[p]].once = "done"
    /\ \A p \in Procs : Returned(p) => RetPair(p) # [val |-> ZeroVal, err |-> NilErr]
    /\ \A p, q \in Procs :
          (p # q /\ Constructing(p) /\ Constructing(q)) => omKey[p] # omKey[q]

\* A goroutine found the Once of its entry busy, waited, and has returned.
C2_Witness ==
    \E p \in Procs : omWaited[p] /\ omPc[p] = "idle" /\ Returned(p)


Used == 1..ctrOpens
IsClosed(i) == ~ctrs[i].isNil /\ ctrs[i].f = <<>>

\* C3: for every OpenCounter call the pin of the target is undone exactly
\* once: no pin and no unpin when the event list is empty or the leader's
\* SetAttrs fails; one pin and one unpin, both inside OpenCounter, when a
\* later step of the open fails; one pin at a successful open and one unpin
\* at the first Close; a Close of a closed counter closes no descriptor and
\* unpins nothing.
C3_PinReversedExactlyOnce ==
    /\ \A i \in Used :
          IF Len(ctrEvs[i]) = 0 \/ ctrEvs[i][1].attrErr
          THEN ctrPins[i] = 0 /\ ctrUnpins[i] = 0
          ELSE IF ctrErr[i] # "nil"
          THEN ctrPins[i] = 1 /\ ctrUnpins[i] = 1
          ELSE ctrPins[i] = 1 /\ ctrUnpins[i] = (IF IsClosed(i) THEN 1 ELSE 0)
    /\ (ctrLast.op = "Open" /\ ctrLast.res = "nil" /\ Len(ctrEvs[ctrLast.slot]) > 0) =>
          CountCalls(ctrLast.calls, "UnlockOSThread") = 0
    /\ (ctrLast.op = "Close" /\ ~ctrLast.pre.isNil /\ ctrLast.pre.f # <<>>) =>
          CountCalls(ctrLast.calls, "UnlockOSThread") = 1
    /\ (ctrLast.op = "Close" /\ ctrLast.pre.f = <<>>) => ctrLast.calls = <<>>

\* A counter that opened has been closed, and the last operation was a
\* second Close of it.
C3_Witness ==
    /\ ctrLast.op = "Close"
    /\ ~ctrLast.pre.isNil /\ ctrLast.pre.f = <<>>
    /\ ctrPins[ctrLast.slot] = 1 /\ ctrUnpins[ctrLast.slot] = 1

\* C4: when OpenCounter fails (the kernel refuses the leader or a member, or
\* a SetAttrs fails), every descriptor the call opened has been closed by the
\* time it returns, the kernel holds the descriptors it held before, every
\* pin has been released, and the caller gets no Counter.
C4_FailedOpenReleasesAll ==
    (ctrLast.op = "Open" /\ ctrLast.res # "nil") =>
        /\ OpenedFds(ctrLast.calls) \subseteq ClosedFds(ctrLast.calls)
        /\ kOpen = ctrLast.kopenPre
        /\ CountCalls(ctrLast.calls, "LockOSThread")
             = CountCalls(ctrLast.calls, "UnlockOSThread")
        /\ ctrs[ctrLast.slot].isNil

\* An OpenCounter call opened the leader and then failed on a member.
C4_Witness ==
    /\ ctrLast.op = "Open" /\ ctrLast.res # "nil"
    /\ OpenedFds(ctrLast.calls) # {}

Redundant(l) ==
    \/ l.op = "Start" /\ l.pre.running
    \/ l.op = "Stop" /\ ~l.pre.running

RECURSIVE TotalWidth(_, _)
TotalWidth(bits, i) == IF i > Len(bits) THEN 0 ELSE bits[i].nBits + TotalWidth(bits, i + 1)

\* v < 2^w for a register value v
Below2To(v, w) ==
    IF w >= RegBits THEN TRUE ELSE IF w <= 0 THEN v = 0 ELSE v < Pow2(w)

InRegister(r) == r.shift >= 0 /\ r.nBits >= 1 /\ r.shift + r.nBits <= RegBits
Covers(r, b) == r.shift <= b /\ b < r.shift + r.nBits
WellFormedRanges(bits) == \A i \in 1..Len(bits) : InRegister(bits[i])
DisjointRanges(bits) ==
    \A i, j \in 1..Len(bits) :
        i < j => ~\E b \in 0..(RegBits - 1) : Covers(bits[i], b) /\ Covers(bits[j], b)

\* The nBits bits of x from bit shift up (bits past the register read 0).
Extract(x, r) ==
    IF r.nBits <= 0 THEN 0
    ELSE BitAnd(Shr(x, r.shift), WrapSub(Shl(1, r.nBits), 1))

\* The ranges of the register, read low range first in the listed order, give v.
ReadsBack(field, bits, v) ==
    \A i \in 1..Len(bits) :
        LET offset == TotalWidth(SubSeq(bits, 1, i - 1), 1) IN
        Extract(field, bits[i]) =
            (IF offset < 0 THEN 0 ELSE Extract(v, formatBitRange(offset, bits[i].nBits)))

OutsideUnchanged(pre, post, bits) ==
    \A b \in 0..(RegBits - 1) :
        (~\E i \in 1..Len(bits) : Covers(bits[i], b)) => Bit(pre, b) = Bit(post, b)

\* What the claim says of one call of set.
SetContract(f, pre, post, v, err) ==
    LET w == TotalWidth(f.bits, 1) IN
    /\ (err.kind = "nil") <=> Below2To(v, w)
    /\ err.kind = "nil" =>
          /\ ReadsBack(FieldGet(post, f.field), f.bits, v)
          /\ OutsideUnchanged(FieldGet(pre, f.field), FieldGet(post, f.field), f.bits)
          /\ post = FieldPut(pre, f.field, FieldGet(post, f.field))
    /\ err.kind # "nil" =>
          /\ err.kind = "ParamOutOfRange"
          /\ 0 <= w /\ w < RegBits /\ err.max = Pow2(w) - 1

\* C6 as stated: for every format and every value, set succeeds exactly when
\* the value is below 2^w for the total width w of the ranges; on success the
\* bits of the destination register selected by the ranges read back as the
\* value and nothing else in the event changes; on failure the error carries
\* max = 2^w - 1.
C6_SetContractEveryFormat ==
    fmtRes # NotSet => SetContract(fmtF, fmtPre, fmtEv, fmtVal, fmtRes)

\* The same contract restricted to the formats whose ranges lie inside the
\* register (bit count at least 1, shift + bit count at most the register
\* width) and do not overlap each other: there set keeps it.
SetContractOnDisjointRanges ==
    (fmtRes # NotSet /\ WellFormedRanges(fmtF.bits) /\ DisjointRanges(fmtF.bits)) =>
        SetContract(fmtF, fmtPre, fmtEv, fmtVal, fmtRes)

\* A value with a bit for each range has been set through a format of two
\* disjoint ranges into a register that was all ones.
SetOnDisjointRangesReached ==
    /\ fmtRes = NoError
    /\ Len(fmtF.bits) >= 2
    /\ WellFormedRanges(fmtF.bits) /\ DisjointRanges(fmtF.bits)
    /\ fmtVal = 2
    /\ fmtPre = FullEvent


\* The parameters of a list other than the event name at position idx.
ExplicitParams(params, idx) ==
    [j \in 1..(Len(params) - 1) |-> IF j < idx THEN params[j] ELSE params[j + 1]]

\* The bit of the value v that the format f puts at bit b of field, or -1
\* where f leaves the bit alone.
PlacedBit(f, v, field, b) ==
    IF f.field # field \/ ~\E i \in 1..Len(f.bits) : Covers(f.bits[i], b) THEN -1
    ELSE LET i == CHOOSE k \in 1..Len(f.bits) : Covers(f.bits[k], b)
         IN Bit(v, TotalWidth(SubSeq(f.bits, 1, i - 1), 1) + b - f.bits[i].shift)

RECURSIVE OverwrittenBit(_, _, _, _, _, _)
\* Bit b of field in the record tmpl overwritten by the parameters 1..j of
\* expl: the last parameter whose format holds the bit decides it.
OverwrittenBit(desc, expl, j, tmpl, field, b) ==
    IF j = 0 THEN Bit(FieldGet(tmpl, field), b)
    ELSE LET placed == PlacedBit(getFormat(desc, expl[j].k).f, expl[j].v, field, b)
         IN IF placed # -1 THEN placed
            ELSE OverwrittenBit(desc, expl, j - 1, tmpl, field, b)

\* The list with the piece at position i taken out and put at position j.
MovePiece(list, i, j) ==
    LET rest == SubSeq(list, 1, i - 1) \o SubSeq(list, i + 1, Len(list))
    IN SubSeq(rest, 1, j - 1) \o <<list[i]>> \o SubSeq(rest, j, Len(rest))

\* Two results with the same record and error; the record's name is the
\* string parsed.
SameResolved(a, b) ==
    /\ a.err = b.err
    /\ [a.ev EXCEPT !.name = EmptyString] = [b.ev EXCEPT !.name = EmptyString]

\* The parse named an event of the PMU among other parameters and resolved.
NamedEventWithParams ==
    /\ parseOut.done /\ parseOut.err = nil
    /\ parseOut.idx # 0
    /\ Len(parseIn.list) >= 2

\* C7: when a string names an event (of sysfs or of the extended index)
\* together with explicit parameters and resolves, (1) every bit of the
\* record's registers is the bit the last explicit parameter holding it gives
\* it, and the bit of the event alone where no explicit parameter holds it;
\* type, scale and unit are the event's; (2) the string with the event name
\* at any other position of the list resolves to the same record.
C7_ExplicitParamsOverrideTemplate ==
    NamedEventWithParams =>
        LET params == parsePMUEvent(parseIn).params
            desc == pmusGet(parseIn.pmu).desc
            tmpl == TryResolvers(desc, params[parseOut.idx].k,
                                 [rawEvent(parseIn) EXCEPT !.pmu = desc.pmu], perfTool).ev
            expl == ExplicitParams(params, parseOut.idx)
        IN /\ \A field \in Fields, b \in 0..(RegBits - 1) :
                  Bit(FieldGet(parseOut.ev, field), b)
                      = OverwrittenBit(desc, expl, Len(expl), tmpl, field, b)
           /\ parseOut.ev.pmu = tmpl.pmu
           /\ parseOut.ev.scale = tmpl.scale /\ parseOut.ev.unit = tmpl.unit
           /\ \A j \in 1..Len(parseIn.list) :
                  SameResolved(ParseEvent(PMUName(parseIn.pmu,
                                                  MovePiece(parseIn.list, parseOut.idx, j)),
                                          perfTool),
                               parseOut)

\* cpu/umask=42,mem-stores/ has resolved: event 208 of mem-stores with the
\* umask 42 given before it, not the 130 of mem-stores.
C7_Witness ==
    /\ parseIn = PMUName("cpu", <<KeyVal("umask", 42), KeyOnly("mem-stores")>>)
    /\ parseOut.done /\ parseOut.err = nil
    /\ parseOut.idx = 2
    /\ parseOut.ev.config = 208 + 42 * 256

StaticTypes == {PERF_TYPE_HARDWARE, PERF_TYPE_SOFTWARE, PERF_TYPE_HW_CACHE}

\* Piece i of the string parsed is key-only and names a built-in event for
\* the PMU of the string.
BuiltinPiece(i) ==
    /\ ~parseIn.list[i].eq
    /\ resolveBuiltinEvent(parseIn.pmu, DashSplit(parseIn.list[i].k)).ok

SysfsEventOf(pmu, k) ==
    /\ pmu \in DOMAIN SysfsTree
    /\ \E i \in 1..Len(SysfsTree[pmu].events) :
           SysfsTree[pmu].events[i].name = k /\ SysfsTree[pmu].events[i].suffix = ""

FormatOf(pmu, k) ==
    \/ k \in BuiltinFormatNames
    \/ /\ pmu \in DOMAIN SysfsTree
       /\ \E i \in 1..Len(SysfsTree[pmu].format) : SysfsTree[pmu].format[i].name = k

\* No parameter other than piece i holds bit b of field.
FreeBit(desc, i, field, b) ==
    \A j \in 1..Len(parseIn.list) :
        j # i => PlacedBit(getFormat(desc, parseIn.list[j].k).f, 0, field, b) = -1

ResolvedJson == getPerfList(perfTool).list[parseIn.list[parseOut.idx].k]

\* C9: when a name resolves through the extended index, the record's scale
\* and unit are the float and the unit read from the entry's ScaleUnit, and
\* 1.0 and "" when the ScaleUnit is empty.
C9_ExtendedLookupAssignsScaleUnit ==
    (parseOut.done /\ parseOut.err = nil /\ parseOut.via = "perfjson") =>
        IF ResolvedJson.ScaleUnit = <<>>
        THEN parseOut.ev.scale = Float(1, 0) /\ parseOut.ev.unit = <<>>
        ELSE /\ parseOut.ev.scale = ScanFloat(ResolvedJson.ScaleUnit, 1).val
             /\ parseOut.ev.unit = SubSeq(ResolvedJson.ScaleUnit,
                                          ScanFloat(ResolvedJson.ScaleUnit, 1).next,
                                          Len(ResolvedJson.ScaleUnit))

\* C10: with the tool missing or too old, ParseEvent does not fail with the
\* tool's error: a name that nothing resolves ends in "unknown event" or
\* "unknown event or parameter".
C10_UnavailableIndexNotFatal ==
    (parseOut.done /\ perfTool \in {"notFound", "tooOld"}) =>
        parseOut.err.kind \notin {"PerfNotFound", "PerfTooOld"}


\* A key-only piece of the string parsed names a record of the extended
\* index that has no encoding, nothing before it in the list fails, and the
\* lookup reaches the index.
EmptyEncodingLookedUp ==
    /\ parseOut.done /\ perfTool = "ok"
    /\ parseIn.pmu \in {"", "cpu"}
    /\ Len(parseIn.list) = 1 /\ ~parseIn.list[1].eq
    /\ parseIn.list[1].k \in DOMAIN getPerfList(perfTool).list
    /\ getPerfList(perfTool).list[parseIn.list[1].k].Encoding = EmptyString
    /\ ~resolveBuiltinEvent(parseIn.pmu, DashSplit(parseIn.list[1].k)).ok
    /\ ~SysfsEventOf("cpu", parseIn.list[1].k)
    /\ ~FormatOf("cpu", parseIn.list[1].k)

\* C11: a name whose record in the extended index has an empty Encoding is
\* not found by that resolver: ParseEvent reports "unknown event" for a bare
\* name and "unknown event or parameter" for cpu/name/, no other error.
C11_EmptyEncodingIsUnknownEvent ==
    EmptyEncodingLookedUp =>
        parseOut.err = (IF parseIn.slashes
                        THEN NewError("UnknownEventOrParameter", parseIn.list[1].k, "")
                        ELSE NewError("UnknownEvent", "", ""))


\* The one construction for key k failed.
FirstGetFailed(k) == Len(omBuilt[k]) >= 1 /\ omBuilt[k][1].err # NilErr

\* C12: when the first construction for a key has failed, the constructor is
\* not run for that key again, although it could now succeed, and every get
\* for the key that has returned has returned that error with the zero
\* value; the entry of the key keeps the error.
C12_FailedConstructionIsSticky ==
    \A k \in Keys :
        FirstGetFailed(k) =>
            /\ omNew[k] = 1 /\ Len(omBuilt[k]) = 1
            /\ \A p \in Procs :
                   (Returned(p) /\ omRet[p].key = k) =>
                       omRet[p].err = omBuilt[k][1].err /\ omRet[p].val = ZeroVal
            /\ \A p \in Procs :
                   (omPc[p] = "ret" /\ omKey[p] = k) =>
                       omEnts[omEnt[p]].err = omBuilt[k][1].err

\* The construction for key 1 failed; a second goroutine found the entry in
\* the map with its Once done, and both have returned the error.
C12_Witness ==
    /\ FirstGetFailed(1)
    /\ Len(omEnts) = 1
    /\ \A p \in Procs :
           /\ omPc[p] = "idle" /\ ~omWaited[p]
           /\ omRet[p].key = 1 /\ omRet[p].err = "errA"


\* Piece i of the string parsed is a format of the PMU of the string.
FormatPiece(i) == FormatOf(parseIn.pmu, parseIn.list[i].k)

\* Piece i of the string parsed is key-only, no format, and a resolver knows
\* it as an event of the PMU.
EventPiece(i) ==
    /\ ~parseIn.list[i].eq
    /\ ~FormatPiece(i)
    /\ LET desc == pmusGet(parseIn.pmu).desc
       IN TryResolvers(desc, parseIn.list[i].k,
                       [rawEvent(parseIn) EXCEPT !.pmu = desc.pmu], perfTool).err = nil

\* The string is pmu/list/ of a PMU there is, its list parses, and pieces i
\* and j are the first two event names of the list, every piece before j
\* being a format or the event name i.
FirstTwoEvents(i, j) ==
    /\ parseIn.slashes /\ parseIn.pmu \in DOMAIN SysfsTree
    /\ parsePMUEvent(parseIn).err = nil
    /\ Len(parseIn.list) >= 2
    /\ ~BuiltinOnly(parsePMUEvent(parseIn).params)
    /\ i < j /\ EventPiece(i) /\ EventPiece(j)
    /\ \A h \in 1..(j - 1) : h # i => FormatPiece(h)

ImpliedPMU == IF parseIn.pmu = "" THEN "cpu" ELSE parseIn.pmu

\* The extended index lists k (by name or by alias), with an encoding.
IndexedEvent(k) ==
    \E n \in 1..Len(PerfListJ) :
        /\ k \in {PerfListJ[n].EventName, PerfListJ[n].EventAlias}
        /\ PerfListJ[n].Encoding # EmptyString

\* k is an event of the PMU for one of the resolvers: a file of its events
\* directory, or for a PMU of type RAW an event of the extended index.
KnownEvent(pmu, k) ==
    \/ SysfsEventOf(pmu, k)
    \/ SysfsTree[pmu].type = PERF_TYPE_RAW /\ IndexedEvent(k)

\* Piece i is neither a format of the PMU nor, when key-only, an event.
UnresolvedPiece(i) ==
    /\ ~FormatOf(ImpliedPMU, parseIn.list[i].k)
    /\ parseIn.list[i].eq \/ ~KnownEvent(ImpliedPMU, parseIn.list[i].k)

\* Piece i is the first the resolver cannot place: the list parses, the PMU
\* is there, the string is no single built-in name, and the pieces before i
\* are formats and at most one event name, which resolves.
FirstUnresolved(i) ==
    /\ parseIn.list # <<>>
    /\ parseIn.slashes => parsePMUEvent(parseIn).err = nil
    /\ ImpliedPMU \in DOMAIN SysfsTree
    /\ ~(Len(parseIn.list) = 1 /\ BuiltinPiece(1))
    /\ UnresolvedPiece(i)
    /\ \A h \in 1..(i - 1) : FormatPiece(h) \/ EventPiece(h)
    /\ Cardinality({h \in 1..(i - 1) : ~FormatOf(ImpliedPMU, parseIn.list[h].k)}) <= 1

\* The error the claim gives a parse whose piece i is unresolved.
UnresolvedError(i) ==
    IF parseIn.slashes THEN NewError("UnknownEventOrParameter", parseIn.list[i].k, "")
    ELSE NewError("UnknownEvent", "", "")

\* C14: a parameter that is neither a format of the PMU nor (when key-only)
\* an event of a resolver fails the parse, with "unknown event" exactly when
\* the string is a bare name and with "unknown event or parameter" and the
\* parameter's name exactly when it is pmu/list/, whether the parameter is
\* key-only or keyed; a tool that ran and failed apart.
C14_UnresolvedParameterClassified ==
    (parseOut.done /\ perfTool # "failed") =>
        /\ \A i \in 1..Len(parseIn.list) :
               FirstUnresolved(i) => parseOut.err = UnresolvedError(i)
        /\ parseOut.err.kind = "UnknownEvent" => ~parseIn.slashes
        /\ parseOut.err.kind = "UnknownEventOrParameter" => parseIn.slashes

\* The same where the lookup in the extended index neither fails for want of
\* the tool nor meets a record without encoding: there the classification
\* is as claimed.
UnresolvedClassifiedWhenIndexAnswers ==
    (parseOut.done /\ perfTool = "ok") =>
        /\ \A i \in 1..Len(parseIn.list) :
               (/\ FirstUnresolved(i)
                /\ parseIn.list[i].k \notin DOMAIN getPerfList(perfTool).list) =>
                   parseOut.err = UnresolvedError(i)
        /\ parseOut.err.kind = "UnknownEvent" => ~parseIn.slashes
        /\ parseOut.err.kind = "UnknownEventOrParameter" => parseIn.slashes

\* cpu/bad=25/ has failed with unknown event or parameter "bad".
UnresolvedKeyedReached ==
    /\ parseIn = PMUName("cpu", <<KeyVal("bad", 25)>>)
    /\ parseOut.done
    /\ parseOut.err = NewError("UnknownEventOrParameter", "bad", "")


\* The result of resolveBuiltinEvent as (found, type, config).
BuiltinResult(r) == <<r.ok, r.ev.pmu, r.ev.config>>
NotFound == <<FALSE, 0, 0>>

\* C15: (1) with a PMU name other than "" and "cpu" nothing is found; (2) a
\* name of the software table is found with its config exactly when the PMU
\* name is "", and no result has type SOFTWARE otherwise; (3) a name outside
\* the software table gives with "cpu" what it gives with ""; (4) a name of
\* the hardware table is found as HARDWARE with its config under both, also
\* when it is a cache name as well: branches is HARDWARE 4
\* (branch-instructions), not the branch-prediction cache.
C15_BuiltinPMUGating ==
    biOut.done =>
        /\ biPmu \notin {"", "cpu"} => BuiltinResult(biOut) = NotFound
        /\ (InTable(builtinSoftware, Join(biName)) /\ ~InTable(builtinCPU, Join(biName))) =>
               BuiltinResult(biOut)
                   = (IF biPmu = ""
                      THEN <<TRUE, PERF_TYPE_SOFTWARE, TableGet(builtinSoftware, Join(biName))>>
                      ELSE NotFound)
        /\ (biOut.ok /\ biOut.ev.pmu = PERF_TYPE_SOFTWARE) => biPmu = ""
        /\ (biPmu = "cpu" /\ ~InTable(builtinSoftware, Join(biName))) =>
               BuiltinResult(biOut) = BuiltinResult(resolveBuiltinEvent("", biName))
        /\ (biPmu \in {"", "cpu"} /\ InTable(builtinCPU, Join(biName))) =>
               BuiltinResult(biOut)
                   = <<TRUE, PERF_TYPE_HARDWARE, TableGet(builtinCPU, Join(biName))>>
        /\ (biPmu \in {"", "cpu"} /\ biName = <<"branches">>) =>
               BuiltinResult(biOut) = <<TRUE, PERF_TYPE_HARDWARE, 4>>
        /\ (biPmu \in {"", "cpu"} /\ biName = <<"cycles">>) =>
               BuiltinResult(biOut) = <<TRUE, PERF_TYPE_HARDWARE, 0>>

\* cpu/branches has been resolved as the hardware event.
C15_Witness ==
    /\ biPmu = "cpu" /\ biName = <<"branches">>
    /\ biOut.done /\ biOut.ok
    /\ biOut.ev.pmu = PERF_TYPE_HARDWARE


\* The names of a table, each as its pieces.
NamesOf(table) == { e[1] : e \in table }
\* The config a table gives the name n.
ConfigOf(table, n) == (CHOOSE e \in table : e[1] = n)[2]

\* The ways a name can be read as level, operation and result: the level
\* first, then nothing, an operation, a result, or both in either order; one
\* dash at the end of the name counts for nothing.  Absent fields are <<>>.
CacheReadings(name) ==
    LET body == IF Len(name) >= 2 /\ name[Len(name)] = "" THEN SubSeq(name, 1, Len(name) - 1)
                ELSE name
        levels == { l \in NamesOf(builtinCache) :
                        Len(l) <= Len(body) /\ SubSeq(body, 1, Len(l)) = l }
    IN { <<l, o, r>> \in levels \X (NamesOf(builtinCacheOp) \cup {<<>>})
                             \X (NamesOf(builtinCacheResult) \cup {<<>>}) :
             body = l \o o \o r \/ body = l \o r \o o }

\* Level, operation and result of a reading; READ and ACCESS are 0.
ReadingLevel(g) == ConfigOf(builtinCache, g[1])
ReadingOp(g) == IF g[2] = <<>> THEN 0 ELSE ConfigOf(builtinCacheOp, g[2])
ReadingResult(g) == IF g[3] = <<>> THEN 0 ELSE ConfigOf(builtinCacheResult, g[3])

\* The permitted (level, op) pairs: every operation on L1D, LL, DTLB and NODE,
\* read and prefetch on L1I, read alone on ITLB and BPU.
AllowedPairs ==
    ({0, 2, 3, 6} \X {0, 1, 2}) \cup ({1} \X {0, 2}) \cup ({4, 5} \X {0})

\* The name is looked up as a cache name: the PMU name lets it, and neither
\* table of plain names has it.
CacheLookup ==
    /\ biOut.done
    /\ biPmu \in {"", "cpu"}
    /\ ~InTable(builtinCPU, Join(biName))
    /\ ~(biPmu = "" /\ InTable(builtinSoftware, Join(biName)))

\* C16: every name found as a legacy-cache event has a config that splits
\* into level, op << 8 and result << 16 with (level, op) a permitted pair,
\* where level, op and result are those the name spells, READ for no
\* operation and ACCESS for no result; a name that spells a pair not
\* permitted (bpu-stores) is not found.
C16_CacheEventsAreAllowed ==
    CacheLookup =>
        /\ (biOut.ok /\ biOut.ev.pmu = PERF_TYPE_HW_CACHE) =>
               /\ <<biOut.ev.config % 256, (biOut.ev.config \div 256) % 256>> \in AllowedPairs
               /\ \E g \in CacheReadings(biName) :
                      biOut.ev.config = ReadingLevel(g) + 256 * ReadingOp(g)
                                            + 65536 * ReadingResult(g)
        /\ \A g \in CacheReadings(biName) :
               <<ReadingLevel(g), ReadingOp(g)>> \notin AllowedPairs =>
                   BuiltinResult(biOut) = NotFound
        /\ biName = <<"bpu", "stores">> => BuiltinResult(biOut) = NotFound

\* l1d-stores-misses has been found: L1D, WRITE, MISS.
C16_Witness ==
    /\ biName = <<"l1d", "stores", "misses">>
    /\ biOut.done /\ biOut.ok
    /\ biOut.ev.pmu = PERF_TYPE_HW_CACHE
    /\ biOut.ev.config = 0 + 256 * 1 + 65536 * 1

\* C17: a name looked up as a cache name is found exactly when it reads as a
\* level followed by at most one operation and at most one result, in either
\* order, with nothing left over, and the pair is permitted; level-op-result
\* and level-result-op give the same config; names with two operations, with
\* a piece no table has after or before the name, or with a letter glued to
\* the name are not found.
C17_CacheGrammar ==
    CacheLookup =>
        /\ biOut.ok <=> \E g \in CacheReadings(biName) :
                            <<ReadingLevel(g), ReadingOp(g)>> \in AllowedPairs
        /\ biOut.ok => biOut.ev.pmu = PERF_TYPE_HW_CACHE
        /\ \A g \in CacheReadings(biName) :
               (g[2] # <<>> /\ g[3] # <<>>) =>
                   /\ BuiltinResult(biOut)
                          = BuiltinResult(resolveBuiltinEvent(biPmu, g[1] \o g[2] \o g[3]))
                   /\ BuiltinResult(biOut)
                          = BuiltinResult(resolveBuiltinEvent(biPmu, g[1] \o g[3] \o g[2]))
        /\ biName \in { <<"l1d", "loads", "stores">>, <<"l1d", "misses", "misses">>,
                        <<"l1d", "x">>, <<"l1d", "loads", "x">>, <<"l1dx">>,
                        <<"x", "l1d">> } =>
               BuiltinResult(biOut) = NotFound

\* l1d-misses-loads, the result before the operation, has been found as L1D,
\* READ, MISS.
C17_Witness ==
    /\ biName = <<"l1d", "misses", "loads">>
    /\ biOut.done /\ biOut.ok
    /\ biOut.ev.config = 65536

\* C18: a ReadGroup whose record from the kernel has an nr other than the
\* counter's number of events fails with the mismatch error and leaves the
\* caller's Counts as they were; a ReadGroup on a closed counter fails with
\* an error and leaves them as they were too.
C18_FailedReadGroupWritesNothing ==
    [][\A rec \in ReadRecords(kEv) :
          RdReadGroup(rec) =>
              /\ (~rdC.isNil /\ rdC.f # <<>> /\ ~rec.err /\ rec.nr # rdC.nEvents) =>
                     (rdLast'.err = "ReadMismatch" /\ rdBuf' = rdBuf)
              /\ (~rdC.isNil /\ rdC.f = <<>>) =>
                     (rdLast'.err = "Counter is closed" /\ rdBuf' = rdBuf)]_vars

\* A ReadGroup has failed on the size of the record while the kernel held
\* other Counts than the caller's buffer does.
C18_Witness ==
    /\ rdLast = [op |-> "ReadGroup", err |-> "ReadMismatch"]
    /\ Len(rdBuf) > 0 /\ rdC.nEvents > 0
    /\ kEv.tr > 0
    /\ rdBuf[1] # Count(kEv.vals[1], kEv.te, kEv.tr, rdC.eventScales[1])

\* C19: Value of a Count whose time_running is 0 is 0, whatever its raw
\* value, time_enabled and scale are; when time_running is above 0 it is the
\* raw value if time_enabled equals time_running and the scale is 1.0, and
\* raw * (time_enabled / time_running) * scale otherwise.
C19_ValueIsZeroWhenNeverRunning ==
    valOut.done =>
        /\ valIn.TimeRunning = 0 => valOut.v.num = 0
        /\ valIn.TimeRunning > 0 =>
               IF valIn.TimeEnabled = valIn.TimeRunning /\ valIn.scale.n = valIn.scale.d
               THEN valOut.v.num = valIn.RawValue * valOut.v.den
               ELSE valOut.v.num * valIn.TimeRunning * valIn.scale.d
                        = valIn.RawValue * valIn.TimeEnabled * valIn.scale.n * valOut.v.den

\* A later Count of an event against an earlier one: no field has gone
\* down, and the two are the same when both were read from the stopped
\* counter with no Start between them.
NotBelow(old, new) ==
    /\ new.c.RawValue >= old.c.RawValue
    /\ new.c.TimeEnabled >= old.c.TimeEnabled
    /\ new.c.TimeRunning >= old.c.TimeRunning
    /\ (old.frozen /\ new.frozen) => new.c = old.c

\* C20: a counter is not running before its first Start, and every Count
\* read until then has raw value 0 and time_enabled 0; every Count read has
\* time_running <= time_enabled; each Count read is not below the Count read
\* for the same event before it, in any field; and reads of the stopped
\* counter with no Start between them return the same Counts.
C20_StoppedCounterIsFrozen ==
    /\ [](/\ (~kEv.started /\ rdLast.err # "panic") => ~rdC.running
          /\ \A i \in 1..Len(rdSeen) :
                 /\ rdSeen[i].c.TimeRunning <= rdSeen[i].c.TimeEnabled
                 /\ ~kEv.started =>
                        (rdSeen[i].c.RawValue = 0 /\ rdSeen[i].c.TimeEnabled = 0))
    /\ [][\A i \in 1..Len(rdSeen) : NotBelow(rdSeen[i], rdSeen'[i])]_vars

\* After Start, some counting and Stop, a group of two has been read twice
\* in a row; the Counts are above zero and the group was off the hardware
\* for part of the time.
C20_Witness ==
    /\ kEv.started /\ ~rdC.running /\ rdLast.err = "nil"
    /\ Len(rdSeen) = 2
    /\ \A i \in 1..2 : /\ rdSeen[i].frozen /\ rdSeen[i].again
                       /\ rdSeen[i].c.RawValue > 0
                       /\ rdSeen[i].c.TimeRunning < rdSeen[i].c.TimeEnabled

\* C25: OpenCounter returns a counter that is not running and whose events
\* were all opened disabled; after that c.running goes from false to true
\* only in Start and from true to false only in Stop; Close, ReadGroup,
\* ReadOne and the passing of time leave it as it is.
C25_RunningChangesOnlyInStartStop ==
    /\ ~rdC.running /\ ~kEv.enabled /\ \A i \in 1..Len(kEv.disabled) : kEv.disabled[i]
    /\ [][/\ RdStart => (rdC'.running = rdC.running \/ (~rdC.running /\ rdC'.running))
          /\ RdStop => (rdC'.running = rdC.running \/ (rdC.running /\ ~rdC'.running))
          /\ RdClose => rdC'.running = rdC.running
          /\ (\E rec \in ReadRecords(kEv) : RdReadGroup(rec) \/ RdReadOne(rec)) =>
                 rdC'.running = rdC.running
          /\ (\E sched \in BOOLEAN : KernelRun(sched)) => rdC'.running = rdC.running
          /\ (~RdStart /\ ~RdStop) => rdC'.running = rdC.running]_vars

\* A running counter of two events has been read and then closed, and is
\* still marked as running.
C25_Witness ==
    /\ ~rdC.isNil /\ rdC.f = <<>> /\ rdC.running
    /\ rdLast.err = "nil"
    /\ Len(rdSeen) = 2 /\ ~rdSeen[1].frozen
    /\ Len(kEv.disabled) = 2

\* What entry i of a successful read of the record rec holds: the i-th
\* value, the times of the record, and the scale and unit of the i-th event
\* given to OpenCounter.
Decoded(rec, i) ==
    Count(rec.vals[i], rec.te, rec.tr, EventScaleUnit(ReadList(rdC.nEvents)[i]))

\* C26: a successful ReadGroup on an opened group of N events into a buffer
\* of L Counts leaves the buffer L long, writes entry i, for i up to the
\* smaller of L and N, with the i-th value of the record, the record's
\* time_enabled and time_running and the scale and unit of the i-th event,
\* and leaves the entries after those as they were; a successful ReadOne
\* returns what ReadGroup writes to the first entry.
C26_GroupReadDecoding ==
    [][\A rec \in ReadRecords(kEv) :
          /\ (RdReadGroup(rec) /\ ~rdC.isNil /\ rdLast'.err = "nil") =>
                 /\ Len(rdBuf') = Len(rdBuf)
                 /\ \A i \in 1..Len(rdBuf) :
                        rdBuf'[i] = IF i <= rdC.nEvents THEN Decoded(rec, i) ELSE rdBuf[i]
          /\ (RdReadOne(rec) /\ ~rdC.isNil /\ rdLast'.err = "nil") =>
                 /\ rdSeen'[1].c = Decoded(rec, 1)
                 /\ Len(rdBuf) >= 1 =>
                        rdSeen'[1].c = CounterReadGroup(rdC, rdBuf, rec).cs[1]]_vars

\* A group of two has been read into a buffer of two after counting: the
\* two Counts have the same times and differ in value and unit.
C26_Witness ==
    /\ rdLast = [op |-> "ReadGroup", err |-> "nil"]
    /\ rdC.nEvents = 2 /\ Len(rdBuf) = 2
    /\ rdBuf[1].RawValue > 0 /\ rdBuf[2].RawValue > rdBuf[1].RawValue
    /\ rdBuf[1].TimeEnabled = rdBuf[2].TimeEnabled
    /\ rdBuf[1].TimeRunning = rdBuf[2].TimeRunning
    /\ rdBuf[1].scale # rdBuf[2].scale

\* C27: no call on an opened Counter indexes the descriptor list after
\* Close has released it: Start, Stop, ReadOne, ReadGroup and Close after
\* Close all return, none ends in a run-time panic.
C27_UseAfterCloseIsSafe ==
    rdLast.err # "panic"

\* k is an event of one of the three sources a bare name is looked up in:
\* the built-in tables, the events of the cpu PMU in sysfs, the extended
\* index.
BareEvent(k) ==
    \/ resolveBuiltinEvent("", DashSplit(k)).ok
    \/ SysfsEventOf("cpu", k)
    \/ IndexedEvent(k)

\* C28: ParseEvent of a string without slashes succeeds only if the string
\* is an event of the built-in tables, of the cpu PMU in sysfs or of the
\* extended index; and a string that is only a format of the cpu PMU (edge,
\* config, period) does not give a record with that bit-field set to 1.
C28_BareNamesDenoteEvents ==
    (parseOut.done /\ ~parseIn.slashes /\ parseIn.list # <<>>) =>
        LET k == parseIn.list[1].k
            f == getFormat(pmusGet("cpu").desc, k).f
        IN /\ parseOut.err = nil => BareEvent(k)
           /\ (parseOut.err = nil /\ FormatOf("cpu", k) /\ ~BareEvent(k)) =>
                  ~ReadsBack(FieldGet(parseOut.ev, f.field), f.bits, 1)

\* C29: every range of every format the program holds, built-in or made by
\* pmuParseFormat from a format file, has shift >= 0, a bit count >= 1 and
\* ends inside the register (a file with a range that does not is refused),
\* and set never ends in a run-time panic on a shift count.
C29_ParsedRangesWellFormed ==
    /\ WellFormedRanges(fmtF.bits)
    /\ fmtRes # Panicked

\* The next step of goroutine p inside get.
GetStep(p) ==
    \/ GetLoad(p)
    \/ GetLoadOrStore(p)
    \/ GetOnceDo(p)
    \/ \E out \in NewOutcomes : GetNew(p, out)
    \/ GetOnceDone(p)
    \/ GetReturn(p)

\* C30: a goroutine inside get can take its next step unless another
\* goroutine is running the constructor for the same key, so a construction
\* for one key never holds up a get for another; every goroutine works on
\* the entry of its own key, no two keys share an entry, and what get
\* returns for a key is an outcome of the constructor called with that key.
C30_KeysAreIndependent ==
    /\ \A p \in Procs :
           (omPc[p] # "idle"
               /\ ~\E q \in Procs \ {p} : Constructing(q) /\ omKey[q] = omKey[p]) =>
               ENABLED GetStep(p)
    /\ \A p \in Procs : omEnt[p] # 0 => omMap[omKey[p]] = omEnt[p]
    /\ \A k1 \in Keys : \A k2 \in Keys \ {k1} : omMap[k1] # 0 => omMap[k1] # omMap[k2]
    /\ \A p \in Procs :
           Returned(p) =>
               \E i \in 1..Len(omBuilt[omRet[p].key]) :
                   omBuilt[omRet[p].key][i] = RetPair(p)

\* Two goroutines are inside the constructor at once, each for its own key.
C30_Witness ==
    \E p \in Procs, q \in Procs :
        /\ omPc[p] = "new" /\ omPc[q] = "new"
        /\ omKey[p] # omKey[q]
        /\ omEnt[p] # omEnt[q]

\* The names the counters of the default events go by.
DefaultCounterNames == { CounterName(defaultEvents({})[i]) : i \in 1..Len(DefaultNames) }

\* The default events whose OpenCounter failed in the open of the running
\* benchmark, by the name of their counter.
FailedNames == { CounterName(defaultEvents({})[i]) : i \in pbCs.failed }

\* C21: Total(name) returns (0, false) whenever name is no counter's name or
\* names a default event whose OpenCounter failed in this open, be its error
\* message logged by this open or a repeat of one logged before.
C21_TotalOfUnopenedIsZeroFalse ==
    (pbLast.op = "Total" /\ pbLast.name \in (TotalNames \ DefaultCounterNames) \cup FailedNames)
        => pbLast.r = TotalResult(Finite(0, 1), FALSE)

\* What the kernel counted for entry i since the last Reset, or since open
\* when there was none.
Delta(i) ==
    [te |-> pbK[i].te - pbK0[i].te, tr |-> pbK[i].tr - pbK0[i].tr,
     raw |-> Snapshot(pbK[i]).raw - pbK0[i].raw]

\* The entries of cs.c whose counter was opened.
Opened == { i \in 1..Len(pbCs.c) : i \notin pbCs.failed }

\* The metrics reported under the name of entry i.
MetricsOf(ms, i) ==
    SelectSeq(ms, LAMBDA m : m.unit = CounterName(defaultEvents({})[i]) \o "/op")

\* m is the value counted since the baseline, scaled by enabled time over
\* running time, per iteration.
ScaledPerOp(m, d, bN) ==
    IF d.te = d.tr
    THEN m.num * bN = d.raw * m.den
    ELSE m.num * (d.tr * bN) = (d.raw * d.te) * m.den

\* The step is the cleanup of the running benchmark.
IsCleanup == pbCs.b = "b" /\ pbCs'.b = "nil"

\* C22: the value reported at cleanup for a counter is computed from the
\* differences of raw, time_enabled and time_running between the final read
\* and the baseline of the last Reset; when the time_running difference is
\* zero the read yields +Inf (as Total shows) and no metric is reported.
C22_MetricsCountFromBaseline ==
    /\ [][IsCleanup =>
            \A i \in Opened :
                IF Delta(i).tr = 0
                THEN MetricsOf(pbMetrics', i) = <<>>
                ELSE \A j \in 1..Len(MetricsOf(pbMetrics', i)) :
                        ScaledPerOp(MetricsOf(pbMetrics', i)[j], Delta(i), pbCs.bN)]_vars
    /\ [](pbLast.op = "Total" /\ pbLast.b = "b" =>
            \A i \in Opened :
                pbLast.name = pbCs.c[i].name =>
                    /\ pbLast.r.ok
                    /\ pbLast.r.val.inf <=> Delta(i).tr = 0
                    /\ ~pbLast.r.val.inf =>
                           ScaledPerOp(pbLast.r.val, Delta(i), 1))

\* A cleanup has run after a Reset that took a baseline of counts and
\* times: the counter of entry 1 has run since and its metric is there, the
\* one of entry 2 was read at the same moment.
C22_Witness ==
    /\ pbLast.op = "close" /\ pbLast.b = "b"
    /\ Opened = 1..Len(DefaultNames)
    /\ pbK0[1].tr > 0 /\ pbK0[1].raw > 0
    /\ Delta(1).tr > 0
    /\ Len(MetricsOf(pbMetrics, 1)) = 1

\* C23: counters are running when open returns; the cleanup stops all
\* counters, reports exactly one metric (scaled value per iteration, under
\* name + "/op") for each default event whose counter opened and has run
\* since the baseline and none besides, and closes every counter; a close
\* after that reports no metric and closes nothing.
C23_CleanupReportsAndCloses ==
    /\ [][pbCs'.id # pbCs.id =>
            \A i \in 1..Len(pbCs'.c) :
                ~pbCs'.c[i].counter.isNil =>
                    pbCs'.c[i].counter.running /\ pbK'[i].enabled]_vars
    /\ [][IsCleanup =>
            /\ \A i \in 1..Len(pbCs.c) :
                  /\ ~pbK'[i].enabled
                  /\ ~pbCs'.c[i].counter.running
                  /\ pbCs'.c[i].counter.f = <<>>
            /\ pbFds' = {}
            /\ \A i \in Opened :
                  Delta(i).tr > 0 =>
                      /\ Len(MetricsOf(pbMetrics', i)) = 1
                      /\ ScaledPerOp(MetricsOf(pbMetrics', i)[1], Delta(i), pbCs.bN)
            /\ Len(pbMetrics') = Cardinality({ i \in Opened : Delta(i).tr > 0 })]_vars
    /\ [][pbLast'.op = "close" /\ pbCs.b = "nil" =>
            UNCHANGED <<pbMetrics, pbLog, pbFds, pbCs, pbK>>]_vars

\* close was called again after a cleanup that reported a metric for one
\* event and none for the event that could not be opened.
C23_Witness ==
    /\ pbLast.op = "close" /\ pbLast.b = "nil"
    /\ pbCs.bN = 2
    /\ Cardinality(pbCs.failed) = 1
    /\ Len(pbMetrics) = 1
    /\ pbMetrics[1].num > 0

\* The open that met msg first.
FirstMet(msg) ==
    pbMet[CHOOSE j \in 1..Len(pbMet) :
            /\ pbMet[j].msg = msg
            /\ \A h \in 1..(j - 1) : pbMet[h].msg # msg].by

\* C24: over all the opens of a process, also those that run at the same
\* time, each distinct open-error message is logged exactly once, by the
\* first open that meets it, and the set of messages seen only grows.
C24_OpenErrorsLoggedOnce ==
    /\ [](/\ pbSeen = { pbMet[j].msg : j \in 1..Len(pbMet) }
          /\ \A j \in 1..Len(pbLog) : pbLog[j].msg \in pbSeen
          /\ \A msg \in pbSeen :
                /\ Cardinality({ j \in 1..Len(pbLog) : pbLog[j].msg = msg }) = 1
                /\ \A j \in 1..Len(pbLog) :
                      pbLog[j].msg = msg => pbLog[j].by = FirstMet(msg))
    /\ [][pbSeen \subseteq pbSeen']_vars

\* Two opens have met the same message, the second goroutine first, and a
\* second message has been met as well.
C24_Witness ==
    /\ Cardinality(pbSeen) = 2
    /\ \E j \in 1..Len(pbMet) : \E h \in (j + 1)..Len(pbMet) :
          /\ pbMet[j].msg = pbMet[h].msg
          /\ pbMet[j].by = 2 /\ pbMet[h].by = 1

====
